---- MODULE Spec2Model ----
(***************************************************************************)
(* A model of calculate_rmsd.py: the permutation generator and the         *)
(* brute-force search, the per-label correspondence solvers, the           *)
(* reflection search, the Kabsch rotation and the rotation between two     *)
(* vectors.                                                                *)
(*                                                                         *)
(* Python lists and numpy arrays are functions over 0..n-1, so that the    *)
(* indices of the model are the indices of the code.  Coordinates are      *)
(* integers.  An RMSD sqrt(s / N) is represented by the integer s, the sum *)
(* of the squared differences: the code only compares RMSDs of point sets  *)
(* of one size N with <, and x |-> sqrt(x / N) is strictly increasing.     *)
(***************************************************************************)
EXTENDS Integers, Sequences, FiniteSets

\* ------------------------------------------------------------------ bounds
\* largest list handed to generate_permutations on its own
MaxPermN == 4
\* largest label group handed to brute_permutation
MaxBruteN == 3
\* coordinates are drawn from 0 .. MaxCoord
MaxCoord == 1
\* most atoms in a structure handed to a reorder function
MaxAtoms == 2
\* largest group handed to hungarian on its own
MaxHungN == 2
\* hungarian on its own: the coordinates of points on a line are 0 .. MaxHungCoord
MaxHungCoord == 2
\* check_reflections: the coordinates are -MaxReflCoord .. MaxReflCoord
MaxReflCoord == 1
\* kabsch, kabsch_weighted: the half-axes of P are 0 .. MaxAxis, and Q is shifted
\* along x by 0 .. MaxAxis
MaxAxis == 1
\* rotation_matrix_vectors: the components of v1 and v2 are -MaxVec .. MaxVec
MaxVec == 1
\* main: the atoms of structure B lie at 0, 0, z with |z| <= MaxMainCoord
MaxMainCoord == 1
\* rmsd: the arrays have 1 .. MaxRows rows
MaxRows == 3
\* get_principal_axis: the half-lengths of the structure along its three
\* axes are 0 .. MaxHalfLength
MaxHalfLength == 2

\* ----------------------------------------------------------------- helpers
Range0(n) == 0 .. (n - 1)

\* list(range(n))
ListRange(n) == [k \in Range0(n) |-> k]

RECURSIVE Factorial(_)
Factorial(n) == IF n <= 0 THEN 1 ELSE n * Factorial(n - 1)

\* the orderings of 0..n-1, as lists
Orderings(n) == {f \in [Range0(n) -> Range0(n)] : \A a, b \in Range0(n) : f[a] = f[b] => a = b}

\* elements[a], elements[b] = elements[b], elements[a]
SwapItems(lst, a, b) == [lst EXCEPT ![a] = lst[b], ![b] = lst[a]]

\* ---------------------------------------------------------- numbers, arrays
\* a float: np.inf is <<>>, a finite value v is <<v>>
Inf == <<>>
Fin(v) == <<v>>
\* x < y on floats
Lt(x, y) == Len(x) = 1 /\ (Len(y) = 0 \/ x[1] < y[1])

RECURSIVE SumTo(_, _)
\* f[0] + ... + f[k-1]
SumTo(f, k) == IF k <= 0 THEN 0 ELSE f[k - 1] + SumTo(f, k - 1)
\* f.sum() of a list
Sum(f) == SumTo(f, Cardinality(DOMAIN f))

RECURSIVE ProdTo(_, _)
ProdTo(f, k) == IF k <= 0 THEN 1 ELSE f[k - 1] * ProdTo(f, k - 1)

\* len(X) of a list or of the rows of an array
Size(X) == Cardinality(DOMAIN X)
\* the number of columns of an array with at least one row
Cols(X) == Cardinality(DOMAIN X[0])

\* the rows of an array of r rows and d columns with entries in S
Arrays(r, d, S) == [Range0(r) -> [Range0(d) -> S]]

\* X[idx]: the rows (or items) of X picked by the index list idx
Take(X, idx) == [k \in DOMAIN idx |-> X[idx[k]]]

\* np.dot(X, Y) of two arrays
Dot(X, Y) ==
    [r \in DOMAIN X |-> [cc \in DOMAIN Y[0] |->
        Sum([k \in DOMAIN Y |-> X[r][k] * Y[k][cc]])]]

\* np.transpose(X)
Transpose(X) == [cc \in DOMAIN X[0] |-> [r \in DOMAIN X |-> X[r][cc]]]

\* the sign of an ordering: +1 for an even number of inversions
Parity(p) ==
    LET inv == Cardinality({pr \in (DOMAIN p) \X (DOMAIN p) : pr[1] < pr[2] /\ p[pr[1]] > p[pr[2]]})
    IN IF inv % 2 = 0 THEN 1 ELSE -1

\* M without its first row and without its column k
Minor(M, k) ==
    [r \in Range0(Size(M) - 1) |-> [cc \in Range0(Size(M) - 1) |->
        M[r + 1][IF cc < k THEN cc ELSE cc + 1]]]

RECURSIVE Det(_)
\* np.linalg.det(M) of a square integer matrix (expansion along the first row)
Det(M) ==
    IF Size(M) = 1 THEN M[0][0]
    ELSE Sum([k \in Range0(Size(M)) |->
             IF M[0][k] = 0 THEN 0
             ELSE (IF k % 2 = 0 THEN 1 ELSE -1) * M[0][k] * Det(Minor(M, k))])

\* the orthogonal d x d matrices with integer entries (signed permutations)
Orthogonal(d) ==
    {[r \in Range0(d) |-> [cc \in Range0(d) |-> IF cc = p[r] THEN s[r] ELSE 0]] :
        p \in Orderings(d), s \in [Range0(d) -> {-1, 1}]}

\* np.diag(s)
Diag(s) == [r \in DOMAIN s |-> [cc \in DOMAIN s |-> IF r = cc THEN s[r] ELSE 0]]

\* np.linalg.svd(C): every <<V, S, W>> with V, W in Orthogonal(d), S >= 0 and
\* descending, and V . diag(S) . W = C.  The factorisation is not unique and
\* the library may deliver any of them.
svd(C) ==
    LET d == Size(C)
        O == Orthogonal(d)
        Core(V, W) == Dot(Dot(Transpose(V), C), Transpose(W))
        IsSigma(M) ==
            /\ \A r, cc \in Range0(d) : r # cc => M[r][cc] = 0
            /\ \A r \in Range0(d) : M[r][r] >= 0
            /\ \A r \in Range0(d) : r + 1 < d => M[r][r] >= M[r + 1][r + 1]
    IN {<<V, [r \in Range0(d) |-> Core(V, W)[r][r]], W>> :
            <<V, W>> \in {vw \in O \X O : IsSigma(Core(vw[1], vw[2]))}}

\* V[:, -1] = -V[:, -1]
NegateLastColumn(V) ==
    [r \in DOMAIN V |-> [cc \in DOMAIN V[r] |->
        IF cc = Size(V) - 1 THEN -V[r][cc] ELSE V[r][cc]]]

\* np.dot(V, W) without the sign correction
NoSignFix(V, W) == Dot(V, W)
\* d = det(V) * det(W) < 0; if d: V[:, -1] = -V[:, -1]; U = np.dot(V, W)
RotationOf(V, W) ==
    IF Det(V) * Det(W) < 0 THEN Dot(NegateLastColumn(V), W) ELSE Dot(V, W)

\* kabsch(P, Q): the matrices it can return, one per factorisation
kabsch(P, Q) ==
    LET C == Dot(Transpose(P), Q)
    IN {RotationOf(f[1], f[3]) : f \in svd(C)}

\* rmsd(V, W) for arrays of one shape, as the sum of the squared differences
rmsd(V, W) ==
    Sum([r \in DOMAIN V |-> Sum([cc \in DOMAIN V[r] |->
        LET diff == V[r][cc] - W[r][cc] IN diff * diff])])

\* kabsch_rmsd(P, Q), translate=False, W=None: P = np.dot(P, U); rmsd(P, Q)
kabsch_rmsd(P, Q) == {rmsd(Dot(P, U), Q) : U \in kabsch(P, Q)}

\* np.linalg.norm(row), squared: the norms are only sorted, and the square
\* root keeps the order
Norm2(row) == Sum([cc \in DOMAIN row |-> row[cc] * row[cc]])

\* np.argsort(v): an ordering of the indices along which v does not
\* decrease; the default sort is not stable, so equal values come in any order
argsort(v) ==
    {p \in Orderings(Size(v)) :
        \A a, b \in DOMAIN v : a < b => v[p[a]] <= v[p[b]]}

\* the integer square root of a perfect square
Sqrt(x) == CHOOSE r \in 0 .. x : r * r = x

\* cdist(A, B, 'euclidean')[r][cc], for points at a whole distance
\* the squared distance, cdist(a, b, 'sqeuclidean')
sqeuclidean(a, b) == Sum([k \in DOMAIN a |-> (a[k] - b[k]) * (a[k] - b[k])])
cdist(a, b) == Sqrt(Sum([k \in DOMAIN a |-> (a[k] - b[k]) * (a[k] - b[k])]))

\* the cost of pairing row k of the first group with row view[k] of the second
AssignmentCost(GA, GB, view) == Sum([k \in DOMAIN GA |-> cdist(GA[k], GB[view[k]])])

\* hungarian(A, B) on two groups of one size: linear_sum_assignment returns
\* the rows 0..k-1 and the columns of a perfect matching of least total
\* cost; which one, among several of least cost, is the library's choice
hungarian(GA, GB) ==
    {view \in Orderings(Size(GA)) :
        \A other \in Orderings(Size(GA)) :
            AssignmentCost(GA, GB, view) <= AssignmentCost(GA, GB, other)}

\* the labels, in the order np.unique sorts them
LabelOrder == <<"C", "H">>
Labels == {LabelOrder[k] : k \in DOMAIN LabelOrder}

\* np.unique(atoms): the labels that occur, sorted
unique(atoms) ==
    LET Occurs(l) == \E k \in DOMAIN atoms : atoms[k] = l
    IN SelectSeq(LabelOrder, Occurs)

\* the items of a set of numbers in ascending order, as a list
RECURSIVE Ascending(_)
Ascending(S) ==
    IF S = {} THEN <<>>
    ELSE LET m == CHOOSE x \in S : \A y \in S : x <= y
         IN <<m>> \o Ascending(S \ {m})
AsList(sq) == [k \in Range0(Len(sq)) |-> sq[k + 1]]

\* np.where(atoms == atom): the indices at which the label is atom, ascending
where(atoms, atom) == AsList(Ascending({k \in DOMAIN atoms : atoms[k] = atom}))

\* the assignment with the group's p indices written instead of q's
AssignFromP(view_r, p_idx, q_idx, view) ==
    [k \in DOMAIN view_r |->
        IF \E a \in DOMAIN p_idx : p_idx[a] = k
        THEN LET a == CHOOSE b \in DOMAIN p_idx : p_idx[b] = k IN p_idx[view[a]]
        ELSE view_r[k]]
\* view_reorder[p_atom_idx] = q_atom_idx[view]
AssignGroup(view_r, p_idx, q_idx, view) ==
    [k \in DOMAIN view_r |->
        IF \E a \in DOMAIN p_idx : p_idx[a] = k
        THEN LET a == CHOOSE b \in DOMAIN p_idx : p_idx[b] = k IN q_idx[view[a]]
        ELSE view_r[k]]

\* no copy: the name refers to the list it was given
AliasOf(lst) == [kind |-> "alias"]
\* copy.deepcopy(lst): a new list with the items of lst
DeepCopy(lst) == [kind |-> "value", val |-> lst]
NoneRef == [kind |-> "none"]

VARIABLES
    \* generate_permutations: its arguments, its locals and where it stands
    n, elements, c, i, gen_pc,
    \* the orderings yielded so far, each as it was when it was yielded
    yielded,
    \* brute_permutation: its arguments A and B, its locals, the candidates it
    \* scored (each ordering as it was when scored, with its score) and what
    \* it returned
    A, B, rmsd_min, view_min, scored, brute_pc, brute_result,
    \* reorder_distance, reorder_hungarian, reorder_brute: the arguments, the
    \* function called, the position in unique_atoms, view_reorder, and where
    \* the call stands
    p_atoms, q_atoms, p_coord, q_coord, reorder_method, atom_k, view_reorder,
    reorder_pc,
    \* hungarian called on its own: its arguments, indices_b, where it stands
    hung_A, hung_B, indices_b, hung_pc,
    \* check_reflections: its arguments (cr_...), the positions of the two
    \* loops in AXIS_SWAPS and AXIS_REFLECTIONS, its locals, the candidates it
    \* scored, and where it stands
    cr_p_atoms, cr_q_atoms, cr_p_coord, cr_q_coord, cr_reorder_method, keep_stereo,
    swap_k, reflection_k, min_rmsd, min_swap, min_reflection, min_review,
    tmp_review, cr_scored, cr_pc,
    \* kabsch and kabsch_weighted: which of the two is called (kb_fn), its
    \* arguments, its locals C, V, S, W, d, U, the translation and the mean
    \* squared deviation of kabsch_weighted, and where the call stands
    kb_fn, kb_P, kb_Q, kb_C, kb_V, kb_S, kb_W, kb_d, kb_U, kb_trans, kb_msd0, kb_msd,
    kb_rmsd, kb_pc,
    \* rotation_matrix_vectors: its arguments, the matrix it returns, and
    \* where the call stands
    rot_v1, rot_v2, rot_R, rot_pc,
    \* get_principal_axis: its arguments, the inertia tensor, what the
    \* eigen-solver delivered, the vector returned, and where the call stands
    ax_atoms, ax_V, ax_I, ax_eigval, ax_eigvec, ax_axis, ax_pc,
    \* rmsd called on two arrays of any row counts: its arguments, its
    \* outcome, and where the call stands
    rm_V, rm_W, rm_out, rm_pc,
    \* main: the parsed arguments (arg_...), the two structures as read, its
    \* locals, the calls it has made so far, what it printed, and where it stands
    arg_reorder, arg_reorder_method, arg_rotation, arg_use_reflections,
    arg_use_reflections_keep_stereo, arg_output, arg_filter,
    p_all_atoms, q_all_atoms, p_all, q_all,
    main_p_atoms, main_q_atoms, main_p_coord, main_q_coord,
    main_rotation_method, main_reorder_method, result_rmsd, q_review,
    calls, printed, main_pc

gen_vars == <<n, elements, c, i, gen_pc, yielded>>
brute_vars == <<A, B, rmsd_min, view_min, scored, brute_pc, brute_result>>
reorder_vars == <<p_atoms, q_atoms, p_coord, q_coord, reorder_method, atom_k,
                  view_reorder, reorder_pc>>
hung_vars == <<hung_A, hung_B, indices_b, hung_pc>>
cr_args == <<cr_p_atoms, cr_q_atoms, cr_p_coord, cr_q_coord, cr_reorder_method, keep_stereo>>
cr_vars == <<cr_args, swap_k, reflection_k, min_rmsd, min_swap, min_reflection,
             min_review, tmp_review, cr_scored, cr_pc>>
kb_vars == <<kb_fn, kb_P, kb_Q, kb_C, kb_V, kb_S, kb_W, kb_d, kb_U, kb_trans, kb_msd0, kb_msd, kb_rmsd, kb_pc>>
rot_vars == <<rot_v1, rot_v2, rot_R, rot_pc>>
ax_vars == <<ax_atoms, ax_V, ax_I, ax_eigval, ax_eigvec, ax_axis, ax_pc>>
rm_vars == <<rm_V, rm_W, rm_out, rm_pc>>
main_args == <<arg_reorder, arg_reorder_method, arg_rotation, arg_use_reflections,
               arg_use_reflections_keep_stereo, arg_output, arg_filter,
               p_all_atoms, q_all_atoms, p_all, q_all>>
main_locals == <<main_p_atoms, main_q_atoms, main_p_coord, main_q_coord,
                 main_rotation_method, main_reorder_method, result_rmsd, q_review>>
main_vars == <<main_args, main_locals, calls, printed, main_pc>>
vars == <<gen_vars, brute_vars, reorder_vars, hung_vars, cr_vars, kb_vars, rot_vars,
          ax_vars, rm_vars, main_vars>>

AxisIdle ==
    /\ ax_atoms = <<>> /\ ax_V = <<>> /\ ax_I = <<>> /\ ax_eigval = <<>>
    /\ ax_eigvec = <<>> /\ ax_axis = <<>> /\ ax_pc = "idle"

RmsdIdle == rm_V = <<>> /\ rm_W = <<>> /\ rm_out = NoneRef /\ rm_pc = "idle"

MainIdle ==
    /\ arg_reorder = FALSE /\ arg_reorder_method = "hungarian" /\ arg_rotation = "kabsch"
    /\ arg_use_reflections = FALSE /\ arg_use_reflections_keep_stereo = FALSE
    /\ arg_output = FALSE /\ arg_filter = "none"
    /\ p_all_atoms = <<>> /\ q_all_atoms = <<>> /\ p_all = <<>> /\ q_all = <<>>
    /\ main_p_atoms = <<>> /\ main_q_atoms = <<>> /\ main_p_coord = <<>> /\ main_q_coord = <<>>
    /\ main_rotation_method = "unset" /\ main_reorder_method = "unset"
    /\ result_rmsd = NoneRef /\ q_review = NoneRef
    /\ calls = <<>> /\ printed = <<>> /\ main_pc = "idle"

RotIdle == rot_v1 = <<>> /\ rot_v2 = <<>> /\ rot_R = <<>> /\ rot_pc = "idle"

KabschIdle ==
    /\ kb_fn = "none" /\ kb_P = <<>> /\ kb_Q = <<>> /\ kb_C = <<>>
    /\ kb_V = <<>> /\ kb_S = <<>> /\ kb_W = <<>> /\ kb_d = FALSE
    /\ kb_U = <<>> /\ kb_trans = <<>> /\ kb_msd0 = 0 /\ kb_msd = 0
    /\ kb_rmsd = NoneRef /\ kb_pc = "idle"

ReflectIdle ==
    /\ cr_p_atoms = <<>> /\ cr_q_atoms = <<>> /\ cr_p_coord = <<>> /\ cr_q_coord = <<>>
    /\ cr_reorder_method = "none" /\ keep_stereo = FALSE
    /\ swap_k = 0 /\ reflection_k = 0
    /\ min_rmsd = Inf /\ min_swap = NoneRef /\ min_reflection = NoneRef
    /\ min_review = NoneRef /\ tmp_review = NoneRef
    /\ cr_scored = <<>> /\ cr_pc = "idle"

HungIdle == hung_A = <<>> /\ hung_B = <<>> /\ indices_b = <<>> /\ hung_pc = "idle"

GenIdle ==
    /\ n = 0 /\ elements = <<>> /\ c = <<>> /\ i = 0 /\ gen_pc = "idle"
    /\ yielded = <<>>

ReorderIdle ==
    /\ p_atoms = <<>> /\ q_atoms = <<>> /\ p_coord = <<>> /\ q_coord = <<>>
    /\ reorder_method = "none" /\ atom_k = 0 /\ view_reorder = <<>>
    /\ reorder_pc = "idle"

BruteIdle ==
    /\ A = <<>> /\ B = <<>> /\ rmsd_min = Inf /\ view_min = NoneRef
    /\ scored = <<>> /\ brute_pc = "idle" /\ brute_result = NoneRef

\* ---------------------------------------------------- generate_permutations
\* the partner with the two cases exchanged
HeapOddIsZero(ii, cc) == IF ii % 2 = 0 THEN cc[ii] ELSE 0
\* the index swapped with elements[i]: 0 for an even i, c[i] for an odd one
HeapPartner(ii, cc) == IF ii % 2 = 0 THEN 0 ELSE cc[ii]

\* c = [0] * n; yield elements
GenFirstYield ==
    /\ gen_pc = "start"
    /\ c' = [k \in Range0(n) |-> 0]
    /\ yielded' = Append(yielded, elements)
    /\ gen_pc' = "yield_first"
    /\ UNCHANGED <<n, elements, i>>

\* the consumer asks for the next item: the generator runs on from its yield
GenResume ==
    \/ /\ gen_pc = "yield_first"
       /\ i' = 0
       /\ gen_pc' = "loop"
       /\ UNCHANGED <<n, elements, c, yielded>>
    \/ /\ gen_pc = "yield_swap"
       /\ c' = [c EXCEPT ![i] = c[i] + 1]
       /\ i' = 0
       /\ gen_pc' = "loop"
       /\ UNCHANGED <<n, elements, yielded>>

\* while i < n: if c[i] < i: swap; yield elements
GenSwapYield ==
    /\ gen_pc = "loop"
    /\ i < n
    /\ c[i] < i
    /\ elements' = SwapItems(elements, HeapPartner(i, c), i)
    /\ yielded' = Append(yielded, elements')
    /\ gen_pc' = "yield_swap"
    /\ UNCHANGED <<n, c, i>>

\* while i < n: else: c[i] = 0; i += 1
GenCarry ==
    /\ gen_pc = "loop"
    /\ i < n
    /\ ~(c[i] < i)
    /\ c' = [c EXCEPT ![i] = 0]
    /\ i' = i + 1
    /\ UNCHANGED <<n, elements, gen_pc, yielded>>

\* the while loop ends: the generator is exhausted
GenStop ==
    /\ gen_pc = "loop"
    /\ ~(i < n)
    /\ gen_pc' = "stop"
    /\ UNCHANGED <<n, elements, c, i, yielded>>

GenInit(size) ==
    /\ n = size
    /\ elements = ListRange(size)
    /\ c = <<>>
    /\ i = 0
    /\ gen_pc = "start"
    /\ yielded = <<>>

\* for p in generate_permutations(list(range(n)), n): pass
InitHeap ==
    (\E size \in 0 .. MaxPermN : GenInit(size))
    /\ BruteIdle /\ ReorderIdle /\ HungIdle /\ ReflectIdle /\ KabschIdle /\ RotIdle
    /\ AxisIdle /\ RmsdIdle /\ MainIdle

NextHeap ==
    \/ GenFirstYield /\ UNCHANGED <<brute_vars, reorder_vars, hung_vars, cr_vars, kb_vars, rot_vars, ax_vars, rm_vars, main_vars>>
    \/ GenSwapYield /\ UNCHANGED <<brute_vars, reorder_vars, hung_vars, cr_vars, kb_vars, rot_vars, ax_vars, rm_vars, main_vars>>
    \/ GenCarry /\ UNCHANGED <<brute_vars, reorder_vars, hung_vars, cr_vars, kb_vars, rot_vars, ax_vars, rm_vars, main_vars>>
    \/ GenStop /\ UNCHANGED <<brute_vars, reorder_vars, hung_vars, cr_vars, kb_vars, rot_vars, ax_vars, rm_vars, main_vars>>
    \/ GenResume /\ UNCHANGED <<brute_vars, reorder_vars, hung_vars, cr_vars, kb_vars, rot_vars, ax_vars, rm_vars, main_vars>>

SpecHeap == InitHeap /\ [][NextHeap]_vars

\* -------------------------------------------------------- brute_permutation
\* the list a name refers to: view_min may be a list of its own or, were it
\* not copied, the generator's list itself
Resolve(ref, lst) == IF ref.kind = "alias" THEN [kind |-> "value", val |-> lst] ELSE ref

\* one pass of the for loop: the body on the yielded list, then the request
\* for the next item
BruteBody ==
    /\ brute_pc = "loop"
    /\ gen_pc \in {"yield_first", "yield_swap"}
    /\ LET reorder_indices == elements
           coords_ordered == Take(B, reorder_indices)
       IN \E rmsd_temp \in kabsch_rmsd(A, coords_ordered) :
           /\ IF Lt(Fin(rmsd_temp), rmsd_min)
                 THEN /\ rmsd_min' = Fin(rmsd_temp)
                      /\ view_min' = DeepCopy(reorder_indices)
                 ELSE UNCHANGED <<rmsd_min, view_min>>
           /\ scored' = Append(scored, [order |-> reorder_indices, score |-> rmsd_temp])
    /\ GenResume
    /\ UNCHANGED <<A, B, brute_pc, brute_result>>

\* the generator is exhausted: return view_min
BruteReturn ==
    /\ brute_pc = "loop"
    /\ gen_pc = "stop"
    /\ brute_pc' = "returned"
    /\ brute_result' = Resolve(view_min, elements)
    /\ UNCHANGED <<gen_vars, A, B, rmsd_min, view_min, scored>>

\* brute_permutation(A, B) on two groups of one size, of points on a line
InitBrute ==
    /\ \E size \in 1 .. MaxBruteN :
           /\ GenInit(size)
           /\ A \in Arrays(size, 1, 0 .. MaxCoord)
           /\ B \in Arrays(size, 1, 0 .. MaxCoord)
    /\ rmsd_min = Inf
    /\ view_min = NoneRef
    /\ scored = <<>>
    /\ brute_pc = "loop"
    /\ brute_result = NoneRef
    /\ ReorderIdle
    /\ HungIdle
    /\ ReflectIdle
    /\ KabschIdle
    /\ RotIdle
    /\ AxisIdle
    /\ RmsdIdle
    /\ MainIdle

NextBrute ==
    \/ GenFirstYield /\ UNCHANGED <<brute_vars, reorder_vars, hung_vars, cr_vars, kb_vars, rot_vars, ax_vars, rm_vars, main_vars>>
    \/ GenSwapYield /\ UNCHANGED <<brute_vars, reorder_vars, hung_vars, cr_vars, kb_vars, rot_vars, ax_vars, rm_vars, main_vars>>
    \/ GenCarry /\ UNCHANGED <<brute_vars, reorder_vars, hung_vars, cr_vars, kb_vars, rot_vars, ax_vars, rm_vars, main_vars>>
    \/ GenStop /\ UNCHANGED <<brute_vars, reorder_vars, hung_vars, cr_vars, kb_vars, rot_vars, ax_vars, rm_vars, main_vars>>
    \/ BruteBody /\ UNCHANGED <<reorder_vars, hung_vars, cr_vars, kb_vars, rot_vars, ax_vars, rm_vars, main_vars>>
    \/ BruteReturn /\ UNCHANGED <<reorder_vars, hung_vars, cr_vars, kb_vars, rot_vars, ax_vars, rm_vars, main_vars>>

SpecBrute == InitBrute /\ [][NextBrute]_vars

\* ------------------------- reorder_distance, reorder_hungarian, reorder_brute
\* view = reorder_indices_B, the order of Q without the order of P
UnprojectedViews(GA, GB) == argsort([k \in DOMAIN GB |-> Norm2(GB[k])])

\* reorder_distance on one group: both groups sorted by norm, the order of P
\* projected onto Q
DistanceViews(GA, GB) ==
    LET A_norms == [k \in DOMAIN GA |-> Norm2(GA[k])]
        B_norms == [k \in DOMAIN GB |-> Norm2(GB[k])]
    IN {Take(reorder_indices_B, translator) :
            <<reorder_indices_B, translator>> \in
                argsort(B_norms) \X UNION {argsort(ra) : ra \in argsort(A_norms)}}

\* the views the solver of a reorder function can give for one group
GroupViews(method, GA, GB) ==
    IF method = "distance" THEN DistanceViews(GA, GB) ELSE hungarian(GA, GB)

\* the loop over unique_atoms from its k-th label on, view_r being
\* view_reorder so far: the views the loop can end with
RECURSIVE ReorderGroups(_, _, _, _, _, _, _)
ReorderGroups(method, pa, qa, pc, qc, k, view_r) ==
    IF k > Len(unique(pa)) THEN {view_r}
    ELSE LET atom == unique(pa)[k]
             p_idx == where(pa, atom)
             q_idx == where(qa, atom)
         IN UNION {ReorderGroups(method, pa, qa, pc, qc, k + 1,
                                 AssignGroup(view_r, p_idx, q_idx, view)) :
                       view \in GroupViews(method, Take(pc, p_idx), Take(qc, q_idx))}

\* the fill of view_reorder before the loop: zeros, and for the hungarian and
\* the brute reorder, -1
InitialView(method, size) ==
    [k \in Range0(size) |-> IF method = "distance" THEN 0 ELSE -1]

\* reorder_distance(p_atoms, q_atoms, p_coord, q_coord): the views it can return
reorder_distance(pa, qa, pc, qc) ==
    ReorderGroups("distance", pa, qa, pc, qc, 1, InitialView("distance", Size(qa)))

\* reorder_hungarian(p_atoms, q_atoms, p_coord, q_coord): the views it can return
reorder_hungarian(pa, qa, pc, qc) ==
    ReorderGroups("hungarian", pa, qa, pc, qc, 1, InitialView("hungarian", Size(qa)))

\* the group of the label under the loop of reorder_brute
Atom == unique(p_atoms)[atom_k]
p_atom_idx == where(p_atoms, Atom)
q_atom_idx == where(q_atoms, Atom)
A_coord == Take(p_coord, p_atom_idx)
B_coord == Take(q_coord, q_atom_idx)

InLoop == reorder_pc = "loop" /\ atom_k <= Len(unique(p_atoms))

\* a call of reorder_distance, from its first line to its return
ReorderDistance ==
    /\ reorder_method = "distance"
    /\ reorder_pc = "loop"
    /\ view_reorder' \in reorder_distance(p_atoms, q_atoms, p_coord, q_coord)
    /\ atom_k' = Len(unique(p_atoms)) + 1
    /\ reorder_pc' = "returned"
    /\ UNCHANGED <<p_atoms, q_atoms, p_coord, q_coord, reorder_method>>

\* a call of reorder_hungarian, from its first line to its return
ReorderHungarian ==
    /\ reorder_method = "hungarian"
    /\ reorder_pc = "loop"
    /\ view_reorder' \in reorder_hungarian(p_atoms, q_atoms, p_coord, q_coord)
    /\ atom_k' = Len(unique(p_atoms)) + 1
    /\ reorder_pc' = "returned"
    /\ UNCHANGED <<p_atoms, q_atoms, p_coord, q_coord, reorder_method>>

\* reorder_brute, one pass of the loop, first half: brute_permutation is
\* called on the two groups
ReorderBruteCall ==
    /\ reorder_method = "brute"
    /\ InLoop
    /\ brute_pc = "idle"
    /\ A' = A_coord
    /\ B' = B_coord
    /\ rmsd_min' = Inf
    /\ view_min' = NoneRef
    /\ scored' = <<>>
    /\ brute_pc' = "loop"
    /\ brute_result' = NoneRef
    /\ n' = Size(A_coord)
    /\ elements' = ListRange(Size(A_coord))
    /\ c' = <<>>
    /\ i' = 0
    /\ gen_pc' = "start"
    /\ yielded' = <<>>
    /\ UNCHANGED <<reorder_vars, hung_vars, cr_vars, kb_vars, rot_vars, ax_vars, rm_vars, main_vars>>

\* reorder_brute, second half: the view brute_permutation returned is written
ReorderBruteGroup ==
    /\ reorder_method = "brute"
    /\ InLoop
    /\ brute_pc = "returned"
    /\ brute_result.kind = "value"
    /\ view_reorder' = AssignGroup(view_reorder, p_atom_idx, q_atom_idx, brute_result.val)
    /\ atom_k' = atom_k + 1
    /\ brute_pc' = "idle"
    /\ UNCHANGED <<p_atoms, q_atoms, p_coord, q_coord, reorder_method, reorder_pc>>
    /\ UNCHANGED <<gen_vars, A, B, rmsd_min, view_min, scored, brute_result, hung_vars, cr_vars, kb_vars, rot_vars, ax_vars, rm_vars, main_vars>>

\* reorder_brute: the loop is over, return view_reorder
ReorderBruteReturn ==
    /\ reorder_method = "brute"
    /\ reorder_pc = "loop"
    /\ atom_k > Len(unique(p_atoms))
    /\ reorder_pc' = "returned"
    /\ UNCHANGED <<p_atoms, q_atoms, p_coord, q_coord, reorder_method, atom_k, view_reorder>>

\* two label lists with the same labels the same number of times
SameMultiset(pa, qa) ==
    /\ Size(pa) = Size(qa)
    /\ \A l \in Labels :
           Cardinality({k \in DOMAIN pa : pa[k] = l}) = Cardinality({k \in DOMAIN qa : qa[k] = l})

\* a reorder function called on two structures of the same labels, of points
\* on a line
InitReorder ==
    /\ \E size \in 1 .. MaxAtoms :
           /\ p_atoms \in [Range0(size) -> Labels]
           /\ q_atoms \in [Range0(size) -> Labels]
           /\ SameMultiset(p_atoms, q_atoms)
           /\ p_coord \in Arrays(size, 1, 0 .. MaxCoord)
           /\ q_coord \in Arrays(size, 1, 0 .. MaxCoord)
           /\ reorder_method \in {"distance", "hungarian", "brute"}
           /\ view_reorder = InitialView(reorder_method, size)
    /\ atom_k = 1
    /\ reorder_pc = "loop"
    /\ GenIdle
    /\ BruteIdle
    /\ HungIdle
    /\ ReflectIdle
    /\ KabschIdle
    /\ RotIdle
    /\ AxisIdle
    /\ RmsdIdle
    /\ MainIdle

NextReorder ==
    \/ ReorderDistance /\ UNCHANGED <<gen_vars, brute_vars, hung_vars, cr_vars, kb_vars, rot_vars, ax_vars, rm_vars, main_vars>>
    \/ ReorderHungarian /\ UNCHANGED <<gen_vars, brute_vars, hung_vars, cr_vars, kb_vars, rot_vars, ax_vars, rm_vars, main_vars>>
    \/ ReorderBruteCall
    \/ GenFirstYield /\ UNCHANGED <<brute_vars, reorder_vars, hung_vars, cr_vars, kb_vars, rot_vars, ax_vars, rm_vars, main_vars>>
    \/ GenSwapYield /\ UNCHANGED <<brute_vars, reorder_vars, hung_vars, cr_vars, kb_vars, rot_vars, ax_vars, rm_vars, main_vars>>
    \/ GenCarry /\ UNCHANGED <<brute_vars, reorder_vars, hung_vars, cr_vars, kb_vars, rot_vars, ax_vars, rm_vars, main_vars>>
    \/ GenStop /\ UNCHANGED <<brute_vars, reorder_vars, hung_vars, cr_vars, kb_vars, rot_vars, ax_vars, rm_vars, main_vars>>
    \/ BruteBody /\ UNCHANGED <<reorder_vars, hung_vars, cr_vars, kb_vars, rot_vars, ax_vars, rm_vars, main_vars>>
    \/ BruteReturn /\ UNCHANGED <<reorder_vars, hung_vars, cr_vars, kb_vars, rot_vars, ax_vars, rm_vars, main_vars>>
    \/ ReorderBruteGroup
    \/ ReorderBruteReturn /\ UNCHANGED <<gen_vars, brute_vars, hung_vars, cr_vars, kb_vars, rot_vars, ax_vars, rm_vars, main_vars>>

SpecReorder == InitReorder /\ [][NextReorder]_vars

\* ---------------------------------------------------------------- hungarian
\* four points of the plane, at whole distances of each other but for one pair
PlanePoints ==
    {[k \in Range0(2) |-> xy[k + 1]] : xy \in {<<0, 0>>, <<0, 1>>, <<0, 6>>, <<8, 0>>}}

\* every entry of cdist(GA, GB) is a whole number
WholeDistances(GA, GB) ==
    \A a \in DOMAIN GA, b \in DOMAIN GB :
        \E r \in 0 .. sqeuclidean(GA[a], GB[b]) : r * r = sqeuclidean(GA[a], GB[b])

\* indices_a, indices_b = linear_sum_assignment(cdist(A, B)); return indices_b
HungarianCall ==
    /\ hung_pc = "called"
    /\ \E view \in hungarian(hung_A, hung_B) : indices_b' = view
    /\ hung_pc' = "returned"
    /\ UNCHANGED <<hung_A, hung_B>>

\* hungarian(A, B) on two groups of one size: points on a line, or points of
\* the plane
InitHungarian ==
    /\ \E size \in 1 .. MaxHungN :
           \/ /\ hung_A \in Arrays(size, 1, 0 .. MaxHungCoord)
              /\ hung_B \in Arrays(size, 1, 0 .. MaxHungCoord)
           \/ /\ hung_A \in [Range0(size) -> PlanePoints]
              /\ hung_B \in [Range0(size) -> PlanePoints]
    /\ WholeDistances(hung_A, hung_B)
    /\ indices_b = <<>>
    /\ hung_pc = "called"
    /\ GenIdle
    /\ BruteIdle
    /\ ReorderIdle
    /\ ReflectIdle
    /\ KabschIdle
    /\ RotIdle
    /\ AxisIdle
    /\ RmsdIdle
    /\ MainIdle

NextHungarian == HungarianCall /\ UNCHANGED <<gen_vars, brute_vars, reorder_vars, cr_vars, kb_vars, rot_vars, ax_vars, rm_vars, main_vars>>

SpecHungarian == InitHungarian /\ [][NextHungarian]_vars

\* ------------------------------------------------------- check_reflections
AXIS_SWAPS ==
    << AsList(<<0, 1, 2>>), AsList(<<0, 2, 1>>), AsList(<<1, 0, 2>>),
       AsList(<<1, 2, 0>>), AsList(<<2, 1, 0>>), AsList(<<2, 0, 1>>) >>

AXIS_REFLECTIONS ==
    << AsList(<<1, 1, 1>>), AsList(<<-1, 1, 1>>), AsList(<<1, -1, 1>>),
       AsList(<<1, 1, -1>>), AsList(<<-1, -1, 1>>), AsList(<<-1, 1, -1>>),
       AsList(<<1, -1, -1>>), AsList(<<-1, -1, -1>>) >>

\* a mask that counts the rows [1, 2, 0] and [2, 1, 0] the wrong way round
SwapMaskMiscounted == <<1, -1, -1, -1, 1, 1>>
swap_mask == <<1, -1, -1, 1, -1, 1>>
reflection_mask == <<1, -1, -1, -1, 1, 1, 1, -1>>

\* X[:, swap]
SwapColumns(X, swap) == [r \in DOMAIN X |-> [cc \in DOMAIN swap |-> X[r][swap[cc]]]]

\* centroid(X) = X.mean(axis=0), for columns whose sum the number of rows divides
centroid(X) ==
    [cc \in DOMAIN X[0] |-> Sum([r \in DOMAIN X |-> X[r][cc]]) \div Size(X)]

\* X -= row
SubtractRow(X, row) == [r \in DOMAIN X |-> [cc \in DOMAIN X[r] |-> X[r][cc] - row[cc]]]

\* X[ref]: X[None] holds the items of X, X[view] the items the view picks
IndexBy(X, ref) == IF ref.kind = "none" THEN X ELSE Take(X, ref.val)

\* this_rmsd <= min_rmsd in the place of this_rmsd < min_rmsd
ImprovesOrTies(this, best) == ~Lt(best, this)
\* this_rmsd < min_rmsd
Improves(this, best) == Lt(this, best)

\* p_atoms == q_atoms without the review
AlignedUnreviewed(pa, qa, review) == pa = qa
\* (p_atoms == q_atoms[min_review]).all()
Aligned(pa, qa, review) == pa = IndexBy(qa, review)

\* the reviews the reorder step can leave in tmp_review
Reviews(method, pa, ta, pc, tc, review) ==
    IF method = "none" THEN {review}
    ELSE {[kind |-> "value", val |-> v] : v \in reorder_distance(pa, ta, pc, tc)}

InReflectLoop == cr_pc = "loop" /\ swap_k <= Len(AXIS_SWAPS)

\* if keep_stereo and i * j == -1
Skipped == keep_stereo /\ swap_mask[swap_k] * reflection_mask[reflection_k] = -1

\* the two for loops move on to the next pair
ReflectAdvance ==
    IF reflection_k < Len(AXIS_REFLECTIONS)
    THEN reflection_k' = reflection_k + 1 /\ swap_k' = swap_k
    ELSE reflection_k' = 1 /\ swap_k' = swap_k + 1

\* continue
ReflectSkip ==
    /\ InReflectLoop
    /\ Skipped
    /\ ReflectAdvance
    /\ UNCHANGED <<cr_args, min_rmsd, min_swap, min_reflection, min_review,
                   tmp_review, cr_scored, cr_pc>>

\* the rows of q_coord had tmp_coord been a view of it
SharedRows(q_rows, tmp_rows) == tmp_rows

\* the rows of the caller's q_coord after "tmp_coord -= centroid(tmp_coord)":
\* tmp_coord is by then an array of its own (the deepcopy, and after it the
\* fancy indexing and np.dot, which return new arrays), so the statement
\* writes into that array and q_coord keeps its rows
CallerRows(q_rows, tmp_rows) == q_rows

\* the body of the loops for one pair, with rotation_method None
ReflectScore ==
    /\ InReflectLoop
    /\ ~Skipped
    /\ LET swap == AXIS_SWAPS[swap_k]
           reflection == AXIS_REFLECTIONS[reflection_k]
           tmp_atoms == cr_q_atoms
           swapped == SwapColumns(cr_q_coord, swap)
           reflected == Dot(swapped, Diag(reflection))
       IN \E centered \in {SubtractRow(reflected, centroid(reflected))} :
          \E review \in Reviews(cr_reorder_method, cr_p_atoms, tmp_atoms,
                                cr_p_coord, centered, tmp_review) :
              LET tmp_coord == IF cr_reorder_method = "none" THEN centered
                               ELSE Take(centered, review.val)
                  this_rmsd == Fin(rmsd(cr_p_coord, tmp_coord))
              IN /\ tmp_review' = review
                 /\ IF Improves(this_rmsd, min_rmsd)
                    THEN /\ min_rmsd' = this_rmsd
                         /\ min_swap' = [kind |-> "value", val |-> swap]
                         /\ min_reflection' = [kind |-> "value", val |-> reflection]
                         /\ min_review' = review
                    ELSE UNCHANGED <<min_rmsd, min_swap, min_reflection, min_review>>
                 /\ cr_scored' = Append(cr_scored,
                        [swap |-> swap_k, reflection |-> reflection_k,
                         rmsd |-> this_rmsd, review |-> review])
                 /\ cr_q_coord' = CallerRows(cr_q_coord, centered)
    /\ ReflectAdvance
    /\ UNCHANGED <<cr_p_atoms, cr_q_atoms, cr_p_coord, cr_reorder_method, keep_stereo, cr_pc>>

\* print("error: Not aligned"); quit()
ReflectQuit ==
    /\ cr_pc = "loop" /\ swap_k > Len(AXIS_SWAPS)
    /\ ~Aligned(cr_p_atoms, cr_q_atoms, min_review)
    /\ cr_pc' = "quit"
    /\ UNCHANGED <<cr_args, swap_k, reflection_k, min_rmsd, min_swap, min_reflection,
                   min_review, tmp_review, cr_scored>>

\* return min_rmsd, min_swap, min_reflection, min_review
ReflectReturn ==
    /\ cr_pc = "loop" /\ swap_k > Len(AXIS_SWAPS)
    /\ Aligned(cr_p_atoms, cr_q_atoms, min_review)
    /\ cr_pc' = "returned"
    /\ UNCHANGED <<cr_args, swap_k, reflection_k, min_rmsd, min_swap, min_reflection,
                   min_review, tmp_review, cr_scored>>

\* no two atoms of one label at one distance from the origin: the argsort of
\* reorder_distance has one answer
NoNormTies(atoms, coord) ==
    \A a, b \in DOMAIN atoms :
        (a # b /\ atoms[a] = atoms[b]) => Norm2(coord[a]) # Norm2(coord[b])

\* [-x for x in row]
Negated(row) == [cc \in DOMAIN row |-> -row[cc]]

\* check_reflections called on two centred structures of two atoms each, the
\* first atom of P at a corner of the cube of side MaxReflCoord with
\* x <= y <= z, the first atom of Q anywhere in the grid, with reorder_method
\* None or reorder_distance and rotation_method None
InitReflect ==
    /\ \E u \in [Range0(3) -> {0, MaxReflCoord}] :
       \E w \in [Range0(3) -> (-MaxReflCoord) .. MaxReflCoord] :
           /\ u[0] <= u[1] /\ u[1] <= u[2]
           /\ cr_p_coord = AsList(<<u, Negated(u)>>)
           /\ cr_q_coord = AsList(<<w, Negated(w)>>)
    /\ cr_p_atoms \in {AsList(<<"C", "C">>), AsList(<<"C", "H">>)}
    /\ cr_q_atoms \in [Range0(2) -> Labels]
    /\ SameMultiset(cr_p_atoms, cr_q_atoms)
    /\ cr_reorder_method \in {"none", "distance"}
    /\ cr_reorder_method = "distance" =>
           NoNormTies(cr_p_atoms, cr_p_coord) /\ NoNormTies(cr_q_atoms, cr_q_coord)
    /\ keep_stereo \in BOOLEAN
    /\ swap_k = 1 /\ reflection_k = 1
    /\ min_rmsd = Inf /\ min_swap = NoneRef /\ min_reflection = NoneRef
    /\ min_review = NoneRef /\ tmp_review = NoneRef
    /\ cr_scored = <<>>
    /\ cr_pc = "loop"
    /\ GenIdle
    /\ BruteIdle
    /\ ReorderIdle
    /\ HungIdle
    /\ KabschIdle
    /\ RotIdle
    /\ AxisIdle
    /\ RmsdIdle
    /\ MainIdle

NextReflect ==
    \/ ReflectSkip /\ UNCHANGED <<gen_vars, brute_vars, reorder_vars, hung_vars, kb_vars, rot_vars, ax_vars, rm_vars, main_vars>>
    \/ ReflectScore /\ UNCHANGED <<gen_vars, brute_vars, reorder_vars, hung_vars, kb_vars, rot_vars, ax_vars, rm_vars, main_vars>>
    \/ ReflectQuit /\ UNCHANGED <<gen_vars, brute_vars, reorder_vars, hung_vars, kb_vars, rot_vars, ax_vars, rm_vars, main_vars>>
    \/ ReflectReturn /\ UNCHANGED <<gen_vars, brute_vars, reorder_vars, hung_vars, kb_vars, rot_vars, ax_vars, rm_vars, main_vars>>

SpecReflect == InitReflect /\ [][NextReflect]_vars

\* ------------------------------------------------- kabsch, kabsch_weighted
\* (X * W).sum(axis=0) for equal weights, times the number of rows
ColumnSums(X) == [cc \in DOMAIN X[0] |-> Sum([r \in DOMAIN X |-> X[r][cc]])]

\* (X * X * W).sum() for equal weights, times the number of rows
SquareSum(X) == Sum([r \in DOMAIN X |-> Norm2(X[r])])

\* S[-1] = -S[-1]
NegateLast(S) == [r \in DOMAIN S |-> IF r = Size(S) - 1 THEN -S[r] ELSE S[r]]

\* the factorisation after "if d:", and U
SignFixed(f) ==
    LET d == Det(f[1]) * Det(f[3]) < 0
    IN [d |-> d,
        V |-> IF d THEN NegateLastColumn(f[1]) ELSE f[1],
        S |-> IF d THEN NegateLast(f[2]) ELSE f[2],
        W |-> f[3],
        U |-> RotationOf(f[1], f[3])]

\* kabsch: C = np.dot(np.transpose(P), Q)
KabschCovariance ==
    /\ kb_pc = "start"
    /\ kb_fn = "kabsch"
    /\ kb_C' = Dot(Transpose(kb_P), kb_Q)
    /\ kb_pc' = "svd"
    /\ UNCHANGED <<kb_fn, kb_P, kb_Q, kb_V, kb_S, kb_W, kb_d, kb_U, kb_trans, kb_msd0, kb_msd, kb_rmsd>>

\* kabsch: the factorisation, the sign correction, U = np.dot(V, W), return U
KabschRotation ==
    /\ kb_pc = "svd"
    /\ kb_fn = "kabsch"
    /\ \E f \in svd(kb_C) : \E g \in {SignFixed(f)} :
              /\ kb_V' = g.V /\ kb_S' = g.S /\ kb_W' = g.W
              /\ kb_d' = g.d /\ kb_U' = g.U
    /\ kb_pc' = "returned"
    /\ UNCHANGED <<kb_fn, kb_P, kb_Q, kb_C, kb_trans, kb_msd0, kb_msd, kb_rmsd>>

\* kabsch_weighted with W None: every weight is 1/n and iw is 1.  With n the
\* number of points, kb_C holds n*n times the code's C, kb_S n*n times its S,
\* kb_msd n*n times its msd and kb_trans n times its V, so that all of them
\* are whole numbers; U, the V and W of the factorisation and d are the code's.
WeightedCovariance ==
    /\ kb_pc = "start"
    /\ kb_fn = "kabsch_weighted"
    /\ LET size == Size(kb_P)
           CMP == ColumnSums(kb_P)
           CMQ == ColumnSums(kb_Q)
       IN kb_C' = [ii \in Range0(3) |-> [k \in Range0(3) |->
              size * Sum([j \in Range0(size) |-> kb_P[j][ii] * kb_Q[j][k]])
                  - CMP[ii] * CMQ[k]]]
    /\ kb_pc' = "svd"
    /\ UNCHANGED <<kb_fn, kb_P, kb_Q, kb_V, kb_S, kb_W, kb_d, kb_U, kb_trans, kb_msd0, kb_msd, kb_rmsd>>

\* the error of the floating-point msd against the exact one: the rounding
\* of the sums leaves it one unit of kb_msd below the exact value, on it, or
\* one unit above
Roundoff == {-1, 0, 1}

\* msd left as computed
NoClamp(msd) == msd

\* if msd < 0.0: msd = 0.0
Clamp(msd) == IF msd < 0 THEN 0 ELSE msd

\* np.sqrt(msd): nan below zero, else the root, kept as its square
sqrt_of(msd) == IF msd < 0 THEN [kind |-> "nan"] ELSE [kind |-> "value", square |-> msd]

\* kabsch_weighted from the factorisation to return U, V, rmsd
WeightedRotation ==
    /\ kb_pc = "svd"
    /\ kb_fn = "kabsch_weighted"
    /\ \E f \in svd(kb_C) : \E g \in {SignFixed(f)} :
           LET size == Size(kb_P)
               CMP == ColumnSums(kb_P)
               CMQ == ColumnSums(kb_Q)
               PSQ == size * SquareSum(kb_P) - Norm2(CMP)
               QSQ == size * SquareSum(kb_Q) - Norm2(CMQ)
               exact == (PSQ + QSQ) - 2 * Sum(g.S)
           IN /\ kb_V' = g.V /\ kb_S' = g.S /\ kb_W' = g.W
              /\ kb_d' = g.d /\ kb_U' = g.U
              /\ \E err \in Roundoff :
                     LET msd == exact + err
                     IN /\ kb_msd0' = msd
                        /\ kb_msd' = Clamp(msd)
                        /\ kb_rmsd' = sqrt_of(Clamp(msd))
              /\ kb_trans' = [ii \in Range0(3) |->
                     CMP[ii] - Sum([k \in Range0(3) |-> g.U[ii][k] * CMQ[k]])]
    /\ kb_pc' = "returned"
    /\ UNCHANGED <<kb_fn, kb_P, kb_Q, kb_C>>

\* six points on the axes, centred: (a,0,0), (-a,0,0), (0,b,0), (0,-b,0), ...
AxisPoints(a, b, cz) ==
    AsList(<< AsList(<<a, 0, 0>>), AsList(<<-a, 0, 0>>), AsList(<<0, b, 0>>),
              AsList(<<0, -b, 0>>), AsList(<<0, 0, cz>>), AsList(<<0, 0, -cz>>) >>)

\* X + row
AddRow(X, row) == [r \in DOMAIN X |-> [cc \in DOMAIN X[r] |-> X[r][cc] + row[cc]]]

\* the motions that relate Q to P: the identity, a quarter turn about z, the
\* cyclic exchange of the axes, the mirror in the xy plane, the exchange of x
\* and y, and the inversion
Motions ==
    { AsList(<<AsList(<<1, 0, 0>>), AsList(<<0, 1, 0>>), AsList(<<0, 0, 1>>)>>),
      AsList(<<AsList(<<0, 1, 0>>), AsList(<<-1, 0, 0>>), AsList(<<0, 0, 1>>)>>),
      AsList(<<AsList(<<0, 1, 0>>), AsList(<<0, 0, 1>>), AsList(<<1, 0, 0>>)>>),
      AsList(<<AsList(<<1, 0, 0>>), AsList(<<0, 1, 0>>), AsList(<<0, 0, -1>>)>>),
      AsList(<<AsList(<<0, 1, 0>>), AsList(<<1, 0, 0>>), AsList(<<0, 0, 1>>)>>),
      AsList(<<AsList(<<-1, 0, 0>>), AsList(<<0, -1, 0>>), AsList(<<0, 0, -1>>)>>) }

\* kabsch(P, Q) or kabsch_weighted(P, Q) called on six points P on the axes
\* and Q, which is P moved by one of the motions and shifted along x
InitKabsch ==
    /\ kb_fn \in {"kabsch", "kabsch_weighted"}
    /\ \E a, b, cz, tx \in 0 .. MaxAxis : \E R0 \in Motions :
           /\ a >= b /\ b >= cz
           /\ kb_P = AxisPoints(a, b, cz)
           /\ kb_Q = AddRow(Dot(AxisPoints(a, b, cz), R0), AsList(<<tx, 0, 0>>))
    /\ kb_C = <<>> /\ kb_V = <<>> /\ kb_S = <<>> /\ kb_W = <<>> /\ kb_d = FALSE
    /\ kb_U = <<>> /\ kb_trans = <<>> /\ kb_msd0 = 0 /\ kb_msd = 0
    /\ kb_rmsd = NoneRef
    /\ kb_pc = "start"
    /\ GenIdle
    /\ BruteIdle
    /\ ReorderIdle
    /\ HungIdle
    /\ ReflectIdle
    /\ RotIdle
    /\ AxisIdle
    /\ RmsdIdle
    /\ MainIdle

NextKabsch ==
    \/ KabschCovariance /\ UNCHANGED <<gen_vars, brute_vars, reorder_vars, hung_vars, cr_vars, rot_vars, ax_vars, rm_vars, main_vars>>
    \/ KabschRotation /\ UNCHANGED <<gen_vars, brute_vars, reorder_vars, hung_vars, cr_vars, rot_vars, ax_vars, rm_vars, main_vars>>
    \/ WeightedCovariance /\ UNCHANGED <<gen_vars, brute_vars, reorder_vars, hung_vars, cr_vars, rot_vars, ax_vars, rm_vars, main_vars>>
    \/ WeightedRotation /\ UNCHANGED <<gen_vars, brute_vars, reorder_vars, hung_vars, cr_vars, rot_vars, ax_vars, rm_vars, main_vars>>

SpecKabsch == InitKabsch /\ [][NextKabsch]_vars

\* ------------------------------------------------- rotation_matrix_vectors
\* np.eye(3)
Eye3 == Diag([k \in Range0(3) |-> 1])

\* np.cross(v1, v2)
cross(v1, v2) ==
    AsList(<< v1[1] * v2[2] - v1[2] * v2[1],
              v1[2] * v2[0] - v1[0] * v2[2],
              v1[0] * v2[1] - v1[1] * v2[0] >>)

\* vx, the cross-product matrix of v
CrossMatrix(v) ==
    AsList(<< AsList(<<0, -v[2], v[1]>>), AsList(<<v[2], 0, -v[0]>>),
              AsList(<<-v[1], v[0], 0>>) >>)

\* rotation_matrix_vectors(v1, v2): the matrix num / den.  In the last branch
\* den is s * s, and num is s*s * (eye + vx) + (1 - c) * vx.vx; a den of 0 is
\* the division by zero that fills the matrix with nan.
rotation_matrix_vectors(v1, v2) ==
    IF v1 = v2 THEN [num |-> Eye3, den |-> 1]
    ELSE IF v1 = Negated(v2)
    THEN [num |-> Diag(AsList(<<-1, 1, -1>>)), den |-> 1]
    ELSE LET v == cross(v1, v2)
             s2 == Norm2(v)
             cv == Sum([k \in Range0(3) |-> v1[k] * v2[k]])
             vx == CrossMatrix(v)
             vx2 == Dot(vx, vx)
         IN [num |-> [r \in Range0(3) |-> [cc \in Range0(3) |->
                        s2 * (Eye3[r][cc] + vx[r][cc]) + (1 - cv) * vx2[r][cc]]],
             den |-> s2]

RotationCall ==
    /\ rot_pc = "start"
    /\ rot_R' = rotation_matrix_vectors(rot_v1, rot_v2)
    /\ rot_pc' = "returned"
    /\ UNCHANGED <<rot_v1, rot_v2>>

InitRotation ==
    /\ rot_v1 \in [Range0(3) -> (-MaxVec) .. MaxVec]
    /\ rot_v2 \in [Range0(3) -> (-MaxVec) .. MaxVec]
    /\ rot_R = <<>>
    /\ rot_pc = "start"
    /\ GenIdle
    /\ BruteIdle
    /\ ReorderIdle
    /\ HungIdle
    /\ ReflectIdle
    /\ KabschIdle
    /\ AxisIdle
    /\ RmsdIdle
    /\ MainIdle

NextRotation ==
    RotationCall /\ UNCHANGED <<gen_vars, brute_vars, reorder_vars, hung_vars, cr_vars, kb_vars, ax_vars, rm_vars, main_vars>>

SpecRotation == InitRotation /\ [][NextRotation]_vars

\* ------------------------------------- get_inertia_tensor, get_principal_axis
\* get_cm(atoms, V) for atoms of one element: every weight is the same, and
\* the average is the centroid
get_cm(atoms, V) == centroid(V)

\* get_inertia_tensor(atoms, V) for atoms of one element, in units of the
\* mass of that element
get_inertia_tensor(atoms, V) ==
    LET CV == SubtractRow(V, get_cm(atoms, V))
        Moment(a, b) == Sum([j \in DOMAIN CV |-> CV[j][a] * CV[j][b]])
        Ixx == Moment(1, 1) + Moment(2, 2)
        Iyy == Moment(0, 0) + Moment(2, 2)
        Izz == Moment(0, 0) + Moment(1, 1)
        Ixy == -Moment(0, 1)
        Ixz == -Moment(0, 2)
        Iyz == -Moment(1, 2)
    IN AsList(<< AsList(<<Ixx, Ixy, Ixz>>), AsList(<<Ixy, Iyy, Iyz>>),
                 AsList(<<Ixz, Iyz, Izz>>) >>)

\* three orthogonal directions of length 3 that are not the axes
Tilted ==
    AsList(<< AsList(<<2, -1, 2>>), AsList(<<2, 2, -1>>), AsList(<<-1, 2, 2>>) >>)

\* M[:, k]
Column(M, k) == [r \in DOMAIN M |-> M[r][k]]

\* the matrices of orthogonal columns of one length an eigen-solver can
\* deliver for the structures below, each column in either sign and the
\* columns in any order; the eigenvectors are these columns over their length
EigenBases == {Dot(Basis, M) : Basis \in {Eye3, Tilted}, M \in Orthogonal(3)}

\* np.linalg.eig(I): every (eigval, eigvec) with the columns of eigvec unit
\* eigenvectors of I and eigval[k] the eigenvalue of column k.  eigvec is the
\* integer matrix num over den, den * den being the squared length of a column.
eig(I) ==
    {[eigval |-> [k \in Range0(3) |->
                     Sum([r \in Range0(3) |-> Dot(I, E)[r][k] * E[r][k]]) \div Norm2(Column(E, k))],
      num |-> E, den2 |-> Norm2(Column(E, 0))] :
        E \in {F \in EigenBases :
                  \A k \in Range0(3) :
                      LET e == Column(F, k)
                          Ie == Column(Dot(I, F), k)
                          ray == Sum([r \in Range0(3) |-> Ie[r] * e[r]])
                      IN \A r \in Range0(3) : Norm2(e) * Ie[r] = ray * e[r]}}

\* np.argmax(v): the first index of the largest entry
argmax(v) ==
    CHOOSE k \in DOMAIN v :
        /\ \A j \in DOMAIN v : v[j] <= v[k]
        /\ \A j \in DOMAIN v : j < k => v[j] < v[k]

\* I = get_inertia_tensor(atoms, V)
AxisTensor ==
    /\ ax_pc = "start"
    /\ ax_I' = get_inertia_tensor(ax_atoms, ax_V)
    /\ ax_pc' = "eig"
    /\ UNCHANGED <<ax_atoms, ax_V, ax_eigval, ax_eigvec, ax_axis>>

\* eigval, eigvec = np.linalg.eig(I); return eigvec[np.argmax(eigval)]
AxisReturn ==
    /\ ax_pc = "eig"
    /\ \E f \in eig(ax_I) :
           /\ ax_eigval' = f.eigval
           /\ ax_eigvec' = [num |-> f.num, den2 |-> f.den2]
           /\ ax_axis' = [num |-> f.num[argmax(f.eigval)], den2 |-> f.den2]
    /\ ax_pc' = "returned"
    /\ UNCHANGED <<ax_atoms, ax_V, ax_I>>

\* the rows a * B[:, 0], -a * B[:, 0], b * B[:, 1], -b * B[:, 1], ...
PointsAlong(Basis, a, b, cz) ==
    LET len == AsList(<<a, -a, b, -b, cz, -cz>>)
    IN [j \in Range0(6) |-> [r \in Range0(3) |-> len[j] * Basis[r][j \div 2]]]

\* get_principal_axis called on six carbon atoms, two on each of three
\* orthogonal directions, at three different distances from the centre
InitAxis ==
    /\ \E Basis \in {Eye3, Tilted} : \E a, b, cz \in 0 .. MaxHalfLength :
           /\ a # b /\ a # cz /\ b # cz
           /\ ax_V = PointsAlong(Basis, a, b, cz)
    /\ ax_atoms = [j \in Range0(6) |-> "C"]
    /\ ax_I = <<>> /\ ax_eigval = <<>> /\ ax_eigvec = <<>> /\ ax_axis = <<>>
    /\ ax_pc = "start"
    /\ GenIdle
    /\ BruteIdle
    /\ ReorderIdle
    /\ HungIdle
    /\ ReflectIdle
    /\ KabschIdle
    /\ RotIdle
    /\ RmsdIdle
    /\ MainIdle

NextAxis ==
    \/ AxisTensor /\ UNCHANGED <<gen_vars, brute_vars, reorder_vars, hung_vars, cr_vars, kb_vars, rot_vars, rm_vars, main_vars>>
    \/ AxisReturn /\ UNCHANGED <<gen_vars, brute_vars, reorder_vars, hung_vars, cr_vars, kb_vars, rot_vars, rm_vars, main_vars>>

SpecAxis == InitAxis /\ [][NextAxis]_vars

\* ----------------------------------------------------------------------- rmsd
\* the shapes (n, D) and (m, D) numpy can subtract: equal, or one of them a
\* single row that is stretched over the rows of the other
Broadcastable(V, W) == Size(V) = Size(W) \/ Size(V) = 1 \/ Size(W) = 1

\* np.array(V) - np.array(W) for shapes that can be subtracted
Subtract(V, W) ==
    LET rows == IF Size(V) >= Size(W) THEN Size(V) ELSE Size(W)
    IN [r \in Range0(rows) |-> [cc \in DOMAIN V[0] |->
           V[IF Size(V) = 1 THEN 0 ELSE r][cc] - W[IF Size(W) = 1 THEN 0 ELSE r][cc]]]

\* rmsd(V, W): an error when the subtraction raises, else the number
\* sqrt((diff * diff).sum() / N) with N = len(V), kept as the pair (sum, N)
rmsd_of(V, W) ==
    IF ~Broadcastable(V, W)
    THEN [kind |-> "error"]
    ELSE LET diff == Subtract(V, W)
         IN [kind |-> "value",
             sum |-> Sum([r \in DOMAIN diff |-> Sum([cc \in DOMAIN diff[r] |-> diff[r][cc] * diff[r][cc]])]),
             N |-> Size(V)]

RmsdCall ==
    /\ rm_pc = "start"
    /\ rm_out' = rmsd_of(rm_V, rm_W)
    /\ rm_pc' = "returned"
    /\ UNCHANGED <<rm_V, rm_W>>

\* rmsd called on two arrays of one column, each of 1 .. MaxRows rows
InitRmsd ==
    /\ \E lenV, lenW \in 1 .. MaxRows :
           /\ rm_V \in [Range0(lenV) -> [Range0(1) -> 0 .. MaxCoord]]
           /\ rm_W \in [Range0(lenW) -> [Range0(1) -> 0 .. MaxCoord]]
    /\ rm_out = NoneRef
    /\ rm_pc = "start"
    /\ GenIdle
    /\ BruteIdle
    /\ ReorderIdle
    /\ HungIdle
    /\ ReflectIdle
    /\ KabschIdle
    /\ RotIdle
    /\ AxisIdle
    /\ MainIdle

NextRmsd ==
    \/ RmsdCall /\ UNCHANGED <<gen_vars, brute_vars, reorder_vars, hung_vars, cr_vars, kb_vars, rot_vars, ax_vars, main_vars>>

SpecRmsd == InitRmsd /\ [][NextRmsd]_vars

\* ----------------------------------------------------------------------- main
\* args.rotation.lower() on the names the runs are started with
lower(name) == IF name = "KABSCH" THEN "kabsch" ELSE name

\* every name selects kabsch_rmsd unless it selects something else
RotationDefaultsToKabsch(name) ==
    IF lower(name) = "quaternion" THEN "quaternion_rmsd"
    ELSE IF lower(name) = "none" THEN "none"
    ELSE "kabsch_rmsd"

\* set rotation method: the function selected for a name, "none" for None,
\* "unknown" for the else branch
rotation_method_of(name) ==
    IF lower(name) = "kabsch" THEN "kabsch_rmsd"
    ELSE IF lower(name) = "quaternion" THEN "quaternion_rmsd"
    ELSE IF lower(name) = "none" THEN "none"
    ELSE "unknown"

\* set reorder method: "if not args.reorder: reorder_method = None" is
\* followed by an if/elif chain of its own on the name, which assigns
\* reorder_method again or ends in the else branch ("unknown")
reorder_method_of(reorder, name) ==
    LET first == IF ~reorder THEN "none" ELSE "unset"
    IN IF name = "hungarian" THEN "reorder_hungarian"
       ELSE IF name = "inertia-hungarian" THEN "reorder_inertia_hungarian"
       ELSE IF name = "brute" THEN "reorder_brute"
       ELSE IF name = "distance" THEN "reorder_distance"
       ELSE "unknown"

\* the comparison of the atom lists left out
NoOrderCheck(pa, qa) == FALSE

\* np.count_nonzero(p_all_atoms != q_all_atoms) for lists of one length
AtomOrderDiffers(pa, qa) == \E k \in DOMAIN pa : pa[k] # qa[k]

\* --remove-idx 0 and --add-idx 0
RemoveIdx == AsList(<<0>>)
AddIdx == AsList(<<0>>)

\* np.where(atoms != 'H')
WhereNotHydrogen(atoms) == AsList(Ascending({k \in DOMAIN atoms : atoms[k] # "H"}))

\* p_view and q_view as main sets them, None when no filter is given
ViewsOf(filter, pa, qa, p_size) ==
    IF filter = "no_hydrogen"
    THEN [p |-> DeepCopy(WhereNotHydrogen(pa)), q |-> DeepCopy(WhereNotHydrogen(qa))]
    ELSE IF filter = "remove_idx"
    THEN LET index == AsList(Ascending(Range0(p_size) \ {RemoveIdx[k] : k \in DOMAIN RemoveIdx}))
         IN [p |-> DeepCopy(index), q |-> DeepCopy(index)]
    ELSE IF filter = "add_idx"
    THEN [p |-> DeepCopy(AddIdx), q |-> DeepCopy(AddIdx)]
    ELSE [p |-> NoneRef, q |-> NoneRef]

\* one call main makes, with the arguments it passes
Call(fn, pa, qa, pc, qc, reorder, rotation, keep) ==
    [fn |-> fn, p_atoms |-> pa, q_atoms |-> qa, p_coord |-> pc, q_coord |-> qc,
     reorder_method |-> reorder, rotation_method |-> rotation, keep_stereo |-> keep]

\* "if result_rmsd:" is false for None and for 0.0
Truthy(ref) == ref.kind = "value" /\ ref.sum # 0

\* the calls whose outcome the run goes on with: reorder_distance, alone or
\* under check_reflections with rotation_method None, on structures of the
\* same labels with one answer of the argsort; after any other call the run
\* is left inside the call
Followed(pa, qa, pc, qc, reorder) ==
    /\ reorder = "reorder_distance"
    /\ SameMultiset(pa, qa)
    /\ NoNormTies(pa, pc) /\ NoNormTies(qa, qc)

\* lines 1206-1221: the two checks on the structures as they were read
MainCheckInputs ==
    /\ main_pc = "start"
    /\ IF Size(p_all) # Size(q_all)
       THEN /\ printed' = Append(printed, "error: Structures not same size")
            /\ main_pc' = "quit"
       ELSE IF AtomOrderDiffers(p_all_atoms, q_all_atoms) /\ ~arg_reorder
       THEN /\ printed' = Append(printed, "error: Atoms are not in the same order")
            /\ main_pc' = "quit"
       ELSE /\ printed' = printed
            /\ main_pc' = "view"
    /\ UNCHANGED <<main_args, main_locals, calls, cr_vars>>

\* lines 1225-1274: the views, the copies and the centring
MainSetView ==
    /\ main_pc = "view"
    /\ LET views == ViewsOf(arg_filter, p_all_atoms, q_all_atoms, Size(p_all))
       IN IF views.p.kind # "none" /\ arg_reorder /\ arg_output
          THEN /\ printed' = Append(printed, "error: Cannot reorder atoms and print structure")
               /\ main_pc' = "quit"
               /\ UNCHANGED main_locals
          ELSE IF views.p.kind # "none" /\ arg_use_reflections /\ arg_output
          THEN /\ printed' = Append(printed, "error: Cannot use reflections on atoms and print")
               /\ main_pc' = "quit"
               /\ UNCHANGED main_locals
          ELSE LET pc0 == IndexBy(p_all, views.p)
                   qc0 == IndexBy(q_all, views.q)
               IN /\ main_p_coord' = SubtractRow(pc0, centroid(pc0))
                  /\ main_q_coord' = SubtractRow(qc0, centroid(qc0))
                  /\ main_p_atoms' = IndexBy(p_all_atoms, views.p)
                  /\ main_q_atoms' = IndexBy(q_all_atoms, views.q)
                  /\ printed' = printed
                  /\ main_pc' = "select"
                  /\ UNCHANGED <<main_rotation_method, main_reorder_method, result_rmsd, q_review>>
    /\ UNCHANGED <<main_args, calls, cr_vars>>

\* lines 1277-1310: the rotation method, then the reorder method
MainSelect ==
    /\ main_pc = "select"
    /\ LET rotation == rotation_method_of(arg_rotation)
           reorder == reorder_method_of(arg_reorder, arg_reorder_method)
       IN IF rotation = "unknown"
          THEN /\ printed' = Append(printed, "error: Unknown rotation method")
               /\ main_pc' = "quit"
               /\ UNCHANGED <<main_rotation_method, main_reorder_method>>
          ELSE IF reorder = "unknown"
          THEN /\ printed' = Append(printed, "error: Unknown reorder method")
               /\ main_pc' = "quit"
               /\ main_rotation_method' = rotation
               /\ UNCHANGED main_reorder_method
          ELSE /\ printed' = printed
               /\ main_pc' = "align"
               /\ main_rotation_method' = rotation
               /\ main_reorder_method' = reorder
    /\ UNCHANGED <<main_args, main_p_atoms, main_q_atoms, main_p_coord, main_q_coord,
                   result_rmsd, q_review, calls, cr_vars>>

\* lines 1313-1346: result_rmsd = None, then check_reflections, or the
\* reorder method, or neither
MainAlign ==
    /\ main_pc = "align"
    /\ IF arg_use_reflections \/ arg_use_reflections_keep_stereo
       THEN /\ calls' = Append(calls, Call("check_reflections", main_p_atoms, main_q_atoms,
                                           main_p_coord, main_q_coord, main_reorder_method,
                                           main_rotation_method, ~arg_use_reflections))
            /\ IF /\ Followed(main_p_atoms, main_q_atoms, main_p_coord, main_q_coord,
                              main_reorder_method)
                  /\ main_rotation_method = "none"
               THEN /\ cr_p_atoms' = main_p_atoms /\ cr_q_atoms' = main_q_atoms
                    /\ cr_p_coord' = main_p_coord /\ cr_q_coord' = main_q_coord
                    /\ cr_reorder_method' = "distance"
                    /\ keep_stereo' = ~arg_use_reflections
                    /\ swap_k' = 1 /\ reflection_k' = 1
                    /\ min_rmsd' = Inf /\ min_swap' = NoneRef /\ min_reflection' = NoneRef
                    /\ min_review' = NoneRef /\ tmp_review' = NoneRef
                    /\ cr_scored' = <<>>
                    /\ cr_pc' = "loop"
                    /\ main_pc' = "reflecting"
               ELSE /\ main_pc' = "in_call"
                    /\ UNCHANGED cr_vars
            /\ UNCHANGED <<main_locals, printed>>
       ELSE IF arg_reorder
       THEN /\ calls' = Append(calls, Call(main_reorder_method, main_p_atoms, main_q_atoms,
                                           main_p_coord, main_q_coord, "n/a", "n/a", FALSE))
            /\ IF Followed(main_p_atoms, main_q_atoms, main_p_coord, main_q_coord,
                           main_reorder_method)
               THEN \E view \in reorder_distance(main_p_atoms, main_q_atoms,
                                                 main_p_coord, main_q_coord) :
                        /\ q_review' = DeepCopy(view)
                        /\ main_q_coord' = Take(main_q_coord, view)
                        /\ main_q_atoms' = Take(main_q_atoms, view)
                        /\ IF main_p_atoms = Take(main_q_atoms, view)
                           THEN printed' = printed /\ main_pc' = "finish"
                           ELSE /\ printed' = Append(printed, "error: Structure not aligned")
                                /\ main_pc' = "quit"
               ELSE /\ main_pc' = "in_call"
                    /\ UNCHANGED <<main_q_coord, main_q_atoms, q_review, printed>>
            /\ UNCHANGED <<main_p_atoms, main_p_coord, main_rotation_method,
                           main_reorder_method, result_rmsd, cr_vars>>
       ELSE /\ main_pc' = "finish"
            /\ UNCHANGED <<main_locals, calls, printed, cr_vars>>
    /\ UNCHANGED main_args

\* check_reflections has returned min_rmsd, min_swap, min_reflection, min_review
MainReflectReturn ==
    /\ main_pc = "reflecting"
    /\ cr_pc = "returned"
    /\ result_rmsd' = [kind |-> "value", sum |-> min_rmsd[1], N |-> Size(main_p_coord)]
    /\ q_review' = min_review
    /\ main_pc' = "finish"
    /\ UNCHANGED <<main_args, main_p_atoms, main_q_atoms, main_p_coord, main_q_coord,
                   main_rotation_method, main_reorder_method, calls, printed, cr_vars>>

\* lines 1348-1385: the structure is printed after kabsch(q_coord, p_coord),
\* or the rmsd is printed
MainFinish ==
    /\ main_pc = "finish"
    /\ IF arg_output
       THEN IF arg_reorder /\ Size(q_review.val) # Size(q_all)
            THEN /\ printed' = Append(printed, "error: Reorder length error")
                 /\ main_pc' = "quit"
                 /\ UNCHANGED <<q_all, q_all_atoms, calls, result_rmsd>>
            ELSE /\ q_all' = IF arg_reorder THEN Take(q_all, q_review.val) ELSE q_all
                 /\ q_all_atoms' = IF arg_reorder THEN Take(q_all_atoms, q_review.val)
                                   ELSE q_all_atoms
                 /\ calls' = Append(calls, Call("kabsch", <<>>, <<>>, main_q_coord,
                                                main_p_coord, "n/a", "n/a", FALSE))
                 /\ main_pc' = "in_call"
                 /\ UNCHANGED <<printed, result_rmsd>>
       ELSE IF Truthy(result_rmsd)
       THEN /\ printed' = Append(printed, result_rmsd)
            /\ main_pc' = "done"
            /\ UNCHANGED <<q_all, q_all_atoms, calls, result_rmsd>>
       ELSE IF main_rotation_method = "none"
       THEN LET out == rmsd_of(main_p_coord, main_q_coord)
            IN /\ calls' = Append(calls, Call("rmsd", <<>>, <<>>, main_p_coord,
                                              main_q_coord, "n/a", "n/a", FALSE))
               /\ IF out.kind = "error"
                  THEN main_pc' = "raised" /\ UNCHANGED <<printed, result_rmsd>>
                  ELSE /\ result_rmsd' = out
                       /\ printed' = Append(printed, out)
                       /\ main_pc' = "done"
               /\ UNCHANGED <<q_all, q_all_atoms>>
       ELSE /\ calls' = Append(calls, Call(main_rotation_method, <<>>, <<>>, main_p_coord,
                                           main_q_coord, "n/a", "n/a", FALSE))
            /\ main_pc' = "in_call"
            /\ UNCHANGED <<q_all, q_all_atoms, printed, result_rmsd>>
    /\ UNCHANGED <<arg_reorder, arg_reorder_method, arg_rotation, arg_use_reflections,
                   arg_use_reflections_keep_stereo, arg_output, arg_filter,
                   p_all_atoms, p_all, main_p_atoms, main_q_atoms, main_p_coord,
                   main_q_coord, main_rotation_method, main_reorder_method, q_review,
                   cr_vars>>

\* a structure of 1 or 2 atoms on the z axis: the atom at z, or the atoms at
\* z and -z
OnZ(size, z) == [k \in Range0(size) |-> AsList(<<0, 0, IF k = 0 THEN z ELSE -z>>)]

\* the sizes of the structures
MainSizes == {1, 2}

\* main started on structure A, one or two atoms at distance 1 on the z axis
\* with a carbon first, and structure B, one or two atoms of any labels on
\* the z axis, with any choice of the arguments; a filter is only given when
\* it leaves at least one atom in each structure
InitMain ==
    /\ arg_reorder \in BOOLEAN
    /\ arg_reorder_method \in {"hungarian", "inertia-hungarian", "brute", "distance", "other"}
    /\ arg_rotation \in {"kabsch", "KABSCH", "quaternion", "none", "other"}
    /\ arg_use_reflections \in BOOLEAN
    /\ arg_use_reflections_keep_stereo \in BOOLEAN
    /\ arg_output \in BOOLEAN
    /\ arg_filter \in {"none", "no_hydrogen", "remove_idx", "add_idx"}
    /\ \E sp, sq \in MainSizes : \E z \in (-MaxMainCoord) .. MaxMainCoord :
           /\ p_all = OnZ(sp, 1)
           /\ q_all = OnZ(sq, z)
           /\ p_all_atoms \in [Range0(sp) -> Labels]
           /\ q_all_atoms \in [Range0(sq) -> Labels]
           /\ p_all_atoms[0] = "C"
           /\ arg_filter = "no_hydrogen" => \E k \in Range0(sq) : q_all_atoms[k] # "H"
           /\ arg_filter = "remove_idx" => sp = 2
    /\ main_p_atoms = <<>> /\ main_q_atoms = <<>>
    /\ main_p_coord = <<>> /\ main_q_coord = <<>>
    /\ main_rotation_method = "unset" /\ main_reorder_method = "unset"
    /\ result_rmsd = NoneRef /\ q_review = NoneRef
    /\ calls = <<>> /\ printed = <<>>
    /\ main_pc = "start"
    /\ GenIdle
    /\ BruteIdle
    /\ ReorderIdle
    /\ HungIdle
    /\ ReflectIdle
    /\ KabschIdle
    /\ RotIdle
    /\ AxisIdle
    /\ RmsdIdle

\* check_reflections runs under main while main waits for it; it ends in its
\* return, since the structures it is followed on hold the same labels
NextMain ==
    \/ MainCheckInputs /\ UNCHANGED <<gen_vars, brute_vars, reorder_vars, hung_vars, kb_vars, rot_vars, ax_vars, rm_vars>>
    \/ MainSetView /\ UNCHANGED <<gen_vars, brute_vars, reorder_vars, hung_vars, kb_vars, rot_vars, ax_vars, rm_vars>>
    \/ MainSelect /\ UNCHANGED <<gen_vars, brute_vars, reorder_vars, hung_vars, kb_vars, rot_vars, ax_vars, rm_vars>>
    \/ MainAlign /\ UNCHANGED <<gen_vars, brute_vars, reorder_vars, hung_vars, kb_vars, rot_vars, ax_vars, rm_vars>>
    \/ main_pc = "reflecting" /\ ReflectSkip /\ UNCHANGED <<gen_vars, brute_vars, reorder_vars, hung_vars, kb_vars, rot_vars, ax_vars, rm_vars, main_vars>>
    \/ main_pc = "reflecting" /\ ReflectScore /\ UNCHANGED <<gen_vars, brute_vars, reorder_vars, hung_vars, kb_vars, rot_vars, ax_vars, rm_vars, main_vars>>
    \/ main_pc = "reflecting" /\ ReflectReturn /\ UNCHANGED <<gen_vars, brute_vars, reorder_vars, hung_vars, kb_vars, rot_vars, ax_vars, rm_vars, main_vars>>
    \/ MainReflectReturn /\ UNCHANGED <<gen_vars, brute_vars, reorder_vars, hung_vars, kb_vars, rot_vars, ax_vars, rm_vars>>
    \/ MainFinish /\ UNCHANGED <<gen_vars, brute_vars, reorder_vars, hung_vars, kb_vars, rot_vars, ax_vars, rm_vars>>

SpecMain == InitMain /\ [][NextMain]_vars

\* ------------------------------------------------------------------ claims
\* C4: generate_permutations(list(range(n)), n) yields every ordering of the
\* n elements exactly once, n! orderings in all, and then stops.
C4_EveryOrderingOnce ==
    /\ \A a, b \in 1 .. Len(yielded) : yielded[a] = yielded[b] => a = b
    /\ \A a \in 1 .. Len(yielded) : yielded[a] \in Orderings(n)
    /\ gen_pc = "stop" =>
           /\ Len(yielded) = Factorial(n)
           /\ {yielded[a] : a \in 1 .. Len(yielded)} = Orderings(n)

C4_Witness == gen_pc = "stop" /\ n = 4 /\ Len(yielded) = 24

\* C5: brute_permutation returns an ordering of 0..n-1, the first one in
\* generation order with the lowest score of all n! orderings, as it was when
\* it was scored.
C5_FirstLowest ==
    brute_pc = "returned" =>
        /\ Len(scored) = Factorial(n)
        /\ brute_result.kind = "value"
        /\ brute_result.val \in Orderings(n)
        /\ \E k \in 1 .. Len(scored) :
               /\ brute_result.val = scored[k].order
               /\ \A j \in 1 .. Len(scored) : scored[j].score >= scored[k].score
               /\ \A j \in 1 .. (k - 1) : scored[j].score > scored[k].score

\* a run in which the lowest score is met first after the generator has
\* swapped its list, and again later
C5_Witness ==
    /\ brute_pc = "returned"
    /\ n = 3
    /\ \E k \in 2 .. Len(scored) : \E j \in (k + 1) .. Len(scored) :
           /\ brute_result.val = scored[k].order
           /\ scored[j].score = scored[k].score
           /\ brute_result.val # elements

\* C1: for p_atoms and q_atoms of one length and the same multiset of labels,
\* the view a reorder function returns is a bijection of 0..N-1 and
\* q_atoms[view] == p_atoms.
C1_ViewIsLabelExactBijection ==
    (reorder_pc = "returned" /\ SameMultiset(p_atoms, q_atoms)) =>
        /\ DOMAIN view_reorder = Range0(Size(p_atoms))
        /\ view_reorder \in Orderings(Size(p_atoms))
        /\ Take(q_atoms, view_reorder) = p_atoms

\* a returned view that moves atoms, over two labels
C1_Witness ==
    /\ reorder_pc = "returned"
    /\ Size(p_atoms) = 2
    /\ p_atoms[0] # p_atoms[1]
    /\ view_reorder = [k \in Range0(2) |-> 1 - k]

\* the sums a matching of the two groups is judged by
SquaredSum(view) ==
    Sum([k \in DOMAIN hung_A |->
        Sum([d \in DOMAIN hung_A[k] |->
            (hung_A[k][d] - hung_B[view[k]][d]) * (hung_A[k][d] - hung_B[view[k]][d])])])
DistanceSum(view) ==
    Sum([k \in DOMAIN hung_A |->
        LET sq == Sum([d \in DOMAIN hung_A[k] |->
                (hung_A[k][d] - hung_B[view[k]][d]) * (hung_A[k][d] - hung_B[view[k]][d])])
        IN CHOOSE r \in 0 .. sq : r * r = sq])

\* C10, as claimed: the assignment hungarian returns has the least sum of
\* squared distances between paired points of all bijections of the group.
C10_MinimizesSquaredSum ==
    hung_pc = "returned" =>
        \A other \in Orderings(Size(hung_A)) : SquaredSum(indices_b) <= SquaredSum(other)

\* C10, amended: the assignment hungarian returns is a bijection of the
\* group with the least sum of (unsquared) Euclidean distances between paired
\* points.
C10_MinimizesDistanceSum ==
    hung_pc = "returned" =>
        /\ indices_b \in Orderings(Size(hung_A))
        /\ \A other \in Orderings(Size(hung_A)) : DistanceSum(indices_b) <= DistanceSum(other)

\* the only matching of least distance sum is returned, and another matching
\* has a smaller sum of squares
C10_Witness ==
    /\ hung_pc = "returned"
    /\ \A other \in Orderings(Size(hung_A)) :
           other # indices_b => DistanceSum(indices_b) < DistanceSum(other)
    /\ \E other \in Orderings(Size(hung_A)) : SquaredSum(other) < SquaredSum(indices_b)

\* the actual parity of a pair of table rows: the sign of the permutation
\* times the product of the three signs
ProperPair(swap, reflection) == Parity(swap) * ProdTo(reflection, 3) = 1
ProperPairs ==
    {pr \in (1 .. Len(AXIS_SWAPS)) \X (1 .. Len(AXIS_REFLECTIONS)) :
        ProperPair(AXIS_SWAPS[pr[1]], AXIS_REFLECTIONS[pr[2]])}
ScoredPairs == {<<cr_scored[k].swap, cr_scored[k].reflection>> : k \in 1 .. Len(cr_scored)}

\* C2: with keep_stereo, check_reflections scores the 24 pairs of actual
\* parity +1 and no other, and the pair it returns is one of them.
C2_KeepStereoScoresProperPairs ==
    keep_stereo =>
        /\ ScoredPairs \subseteq ProperPairs
        /\ (cr_pc = "loop" /\ swap_k > Len(AXIS_SWAPS)) =>
               /\ ScoredPairs = ProperPairs
               /\ Len(cr_scored) = 24
        /\ cr_pc = "returned" =>
               /\ Len(cr_scored) = 24
               /\ min_swap.kind = "value" /\ min_reflection.kind = "value"
               /\ ProperPair(min_swap.val, min_reflection.val)

\* a stereo-keeping search that returns the cyclic swap [1, 2, 0]
C2_Witness ==
    /\ cr_pc = "returned"
    /\ keep_stereo
    /\ Len(cr_scored) = 24
    /\ min_swap = [kind |-> "value", val |-> AXIS_SWAPS[4]]

\* C3: without keep_stereo, check_reflections scores the 48 pairs in the order
\* of the loops and returns the first of them with the lowest score, its
\* score, swap, reflection and review.
C3_FirstMinimumOfAll48 ==
    (~keep_stereo /\ cr_pc = "returned") =>
        /\ Len(cr_scored) = 48
        /\ \A s \in 1 .. 6 : \A r \in 1 .. 8 :
               /\ cr_scored[(s - 1) * 8 + r].swap = s
               /\ cr_scored[(s - 1) * 8 + r].reflection = r
        /\ \E k \in 1 .. Len(cr_scored) :
               /\ \A j \in 1 .. (k - 1) : Lt(cr_scored[k].rmsd, cr_scored[j].rmsd)
               /\ \A j \in 1 .. Len(cr_scored) : ~Lt(cr_scored[j].rmsd, cr_scored[k].rmsd)
               /\ min_rmsd = cr_scored[k].rmsd
               /\ min_swap = [kind |-> "value", val |-> AXIS_SWAPS[cr_scored[k].swap]]
               /\ min_reflection =
                      [kind |-> "value", val |-> AXIS_REFLECTIONS[cr_scored[k].reflection]]
               /\ min_review = cr_scored[k].review

\* a search whose lowest score is not the first candidate's, is met again
\* later, and comes with a review
C3_Witness ==
    /\ cr_pc = "returned"
    /\ ~keep_stereo
    /\ min_review.kind = "value"
    /\ \E k \in 2 .. Len(cr_scored) : \E j \in (k + 1) .. Len(cr_scored) :
           /\ min_rmsd = cr_scored[k].rmsd
           /\ cr_scored[j].rmsd = min_rmsd
           /\ \A h \in 1 .. (k - 1) : Lt(min_rmsd, cr_scored[h].rmsd)

\* C6: check_reflections returns only when p_atoms equals q_atoms[min_review]
\* item by item, and quits without a result on any mismatch.
C6_ReturnsOnlyAligned ==
    /\ cr_pc = "returned" =>
           \A k \in DOMAIN cr_p_atoms : cr_p_atoms[k] = IndexBy(cr_q_atoms, min_review)[k]
    /\ cr_pc = "quit" =>
           \E k \in DOMAIN cr_p_atoms : cr_p_atoms[k] # IndexBy(cr_q_atoms, min_review)[k]

\* a search without a reorder over labels in another order, which quits
C6_Witness ==
    /\ cr_pc = "quit"
    /\ cr_reorder_method = "none"
    /\ min_review = NoneRef
    /\ cr_p_atoms[0] # cr_q_atoms[0]
    /\ Len(cr_scored) = 48

\* C7: the matrix kabsch returns is np.dot(V, W) and has determinant +1,
\* whatever the signs of det(V) and det(W) the factorisation came with.
C7_KabschDeterminantIsOne ==
    (kb_fn = "kabsch" /\ kb_pc = "returned") =>
        /\ kb_U = Dot(kb_V, kb_W)
        /\ Det(kb_U) = 1

\* a call in which the factorisation came with det(V) * det(W) < 0 although
\* Q is P, not all at the origin, turned by a proper rotation
C7_Witness ==
    /\ kb_fn = "kabsch"
    /\ kb_pc = "returned"
    /\ kb_d
    /\ Det(kb_V) * Det(kb_W) = 1
    /\ kb_P[0][0] > 0
    /\ kb_Q = Dot(kb_P, CHOOSE R0 \in Motions : R0[0][1] = 1 /\ R0[1][0] = -1)

\* Q is P shifted by one row
PureTranslation ==
    \E t \in [Range0(3) -> 0 .. (MaxAxis + 1)] : kb_Q = AddRow(kb_P, t)

\* C8, as claimed: for Q a translate of P, the U and V that
\* kabsch_weighted(P, Q) returns carry P onto Q, np.dot(P, U.T) + V = Q
\* (both sides times the number of points).
C8_CarriesFirstOntoSecond ==
    (kb_fn = "kabsch_weighted" /\ kb_pc = "returned" /\ PureTranslation) =>
        \A j \in DOMAIN kb_P : \A cc \in Range0(3) :
            Size(kb_P) * Sum([k \in Range0(3) |-> kb_P[j][k] * kb_U[cc][k]]) + kb_trans[cc]
                = Size(kb_P) * kb_Q[j][cc]

\* np.dot(R, v) = v2 for the matrix R = num / den
MapsOnto(R, v1, v2) ==
    /\ R.den # 0
    /\ \A r \in Range0(3) : Sum([cc \in Range0(3) |-> R.num[r][cc] * v1[cc]]) = R.den * v2[r]

\* R = num / den is orthogonal with determinant +1
ProperRotation(R) ==
    /\ R.den # 0
    /\ Dot(R.num, Transpose(R.num)) = Diag([k \in Range0(3) |-> R.den * R.den])
    /\ Det(R.num) = R.den * R.den * R.den

\* C9, as claimed: for nonzero v1 = -v2 rotation_matrix_vectors returns a
\* proper rotation that maps v1 onto v2, and for v1 = v2 the identity.
C9_AntiparallelMapsOnto ==
    rot_pc = "returned" =>
        /\ (rot_v1 = Negated(rot_v2) /\ Norm2(rot_v1) # 0) =>
               /\ ProperRotation(rot_R)
               /\ MapsOnto(rot_R, rot_v1, rot_v2)
        /\ rot_v1 = rot_v2 => rot_R = [num |-> Eye3, den |-> 1]

\* C11, as claimed: the vector get_principal_axis returns is an eigenvector
\* of the inertia tensor for its largest eigenvalue, I.v = lambda_max v.
C11_AxisIsTopEigenvector ==
    ax_pc = "returned" =>
        LET v == ax_axis.num
            top == ax_eigval[argmax(ax_eigval)]
        IN \A r \in Range0(3) :
               Sum([k \in Range0(3) |-> ax_I[r][k] * v[k]]) = top * v[r]

\* C12, as claimed: rmsd fails whenever the two arrays differ in their
\* number of rows, also when one of them has a single row.
C12_DifferentLengthsFail ==
    (rm_pc = "returned" /\ Size(rm_V) # Size(rm_W)) => rm_out.kind = "error"

\* C13: kabsch_weighted never takes the root of a negative number: when the
\* msd it computed is below 0 the returned rmsd is exactly 0, otherwise it is
\* the root of that msd; the returned rmsd is always a number that is >= 0.
C13_NegativeMsdIsClamped ==
    (kb_fn = "kabsch_weighted" /\ kb_pc = "returned") =>
        /\ kb_rmsd.kind = "value"
        /\ kb_rmsd.square >= 0
        /\ kb_msd0 < 0 => kb_rmsd.square = 0
        /\ kb_msd0 >= 0 => kb_rmsd.square = kb_msd0

\* a returned call whose computed msd fell below 0 and whose rmsd is 0
C13_Witness ==
    /\ kb_fn = "kabsch_weighted" /\ kb_pc = "returned"
    /\ kb_msd0 < 0
    /\ kb_rmsd = [kind |-> "value", square |-> 0]
    /\ kb_P[0][0] > 0

\* the run of main has ended: quit() or exit(), return, an exception of
\* rmsd, or a call whose outcome is not followed
MainEnded == main_pc \in {"quit", "done", "raised", "in_call"}

\* the functions main can select as the reorder method
Solvers == {"reorder_hungarian", "reorder_inertia_hungarian", "reorder_brute", "reorder_distance"}

\* C14, as claimed: in every call main makes to a correspondence solver, to
\* check_reflections or to a rotation or rmsd method, the two point sets
\* have the same length.
C14_PassedSetsHaveEqualLength ==
    \A k \in DOMAIN calls : Size(calls[k].p_coord) = Size(calls[k].q_coord)

\* the number of atoms of label l a view keeps of a structure
KeptCount(atoms, view, l) ==
    IF view.kind = "none" THEN Cardinality({k \in DOMAIN atoms : atoms[k] = l})
    ELSE Cardinality({k \in DOMAIN view.val :
                         view.val[k] \in DOMAIN atoms /\ atoms[view.val[k]] = l})

\* after filtering, the label multisets of the two structures differ
FilteredLabelsDiffer ==
    LET views == ViewsOf(arg_filter, p_all_atoms, q_all_atoms, Size(p_all))
    IN \E l \in Labels :
           KeptCount(p_all_atoms, views.p, l) # KeptCount(q_all_atoms, views.q, l)

\* C15, as claimed: when the filtered label multisets differ and reorder was
\* not requested, main aborts with the atom-order error, makes no call and
\* prints no rmsd.
C15_AbortsWithAtomOrderError ==
    (FilteredLabelsDiffer /\ ~arg_reorder) =>
        /\ calls = <<>>
        /\ main_pc \in {"start", "quit"}
        /\ main_pc = "quit" => printed = <<"error: Atoms are not in the same order">>

\* C15, amended: when the filtered label multisets differ and reorder was
\* not requested, main aborts before any call and prints no rmsd; it reports
\* the size error when the structures differ in their number of atoms and
\* the atom-order error otherwise.
C15_AbortsWithSizeOrAtomOrderError ==
    (FilteredLabelsDiffer /\ ~arg_reorder) =>
        /\ calls = <<>>
        /\ main_pc \in {"start", "quit"}
        /\ main_pc = "quit" =>
               printed = IF Size(p_all) # Size(q_all)
                         THEN <<"error: Structures not same size">>
                         ELSE <<"error: Atoms are not in the same order">>

\* a run without hydrogens on structures of one size whose other atoms
\* differ, ended by the atom-order error
C15_Witness ==
    /\ FilteredLabelsDiffer /\ ~arg_reorder
    /\ arg_filter = "no_hydrogen"
    /\ Size(p_all) = Size(q_all)
    /\ main_pc = "quit"
    /\ printed = <<"error: Atoms are not in the same order">>

UnknownErrors == {"error: Unknown rotation method", "error: Unknown reorder method"}

\* the errors of the checks that come before the methods are selected
EarlierErrors ==
    {"error: Structures not same size", "error: Atoms are not in the same order",
     "error: Cannot reorder atoms and print structure",
     "error: Cannot use reflections on atoms and print"}

\* C16, as claimed: when the rotation name is not one of kabsch, quaternion,
\* none, or the reorder name not one of hungarian, inertia-hungarian, brute,
\* distance, main reports the unknown-method error and ends before any call.
C16_UnknownNameIsReported ==
    (\/ arg_rotation \notin {"kabsch", "quaternion", "none"}
     \/ arg_reorder_method \notin {"hungarian", "inertia-hungarian", "brute", "distance"}) =>
        /\ calls = <<>>
        /\ MainEnded => main_pc = "quit" /\ Len(printed) = 1 /\ printed[1] \in UnknownErrors

\* C16, amended: when the rotation name, without regard to case, is not one
\* of kabsch, quaternion, none, or the reorder name not one of hungarian,
\* inertia-hungarian, brute, distance, main never makes a call: it ends in
\* quit() with one error, the unknown-method error unless one of the checks
\* before the selection (size, atom order, filter with print) has ended it.
C16_UnknownNameEndsBeforeAnyCall ==
    (\/ lower(arg_rotation) \notin {"kabsch", "quaternion", "none"}
     \/ arg_reorder_method \notin {"hungarian", "inertia-hungarian", "brute", "distance"}) =>
        /\ calls = <<>>
        /\ main_pc \in {"start", "view", "select", "quit"}
        /\ main_pc = "quit" =>
               /\ Len(printed) = 1
               /\ printed[1] \in UnknownErrors \cup EarlierErrors
               /\ (main_p_coord # <<>>) => printed[1] \in UnknownErrors

\* a run without reorder ended by the unknown reorder method error
C16_Witness ==
    /\ arg_reorder_method = "other" /\ ~arg_reorder
    /\ main_pc = "quit"
    /\ printed = <<"error: Unknown reorder method">>
    /\ calls = <<>>

\* C17, as claimed: when check_reflections ran and printing of the structure
\* is off, the rmsd main prints is the minimum check_reflections returned.
C17_PrintsReflectionMinimum ==
    (/\ main_pc = "done"
     /\ arg_use_reflections \/ arg_use_reflections_keep_stereo
     /\ ~arg_output
     /\ cr_pc = "returned") =>
        /\ Len(printed) = 1
        /\ printed[1].sum = min_rmsd[1]

\* C19, as claimed: no correspondence solver is invoked, directly or through
\* check_reflections, with p_atoms and q_atoms whose per-label counts differ.
C19_SolverGetsEqualLabelCounts ==
    \A k \in DOMAIN calls :
        calls[k].fn \in Solvers \cup {"check_reflections"} =>
            \A l \in Labels :
                Cardinality({a \in DOMAIN calls[k].p_atoms : calls[k].p_atoms[a] = l})
                    = Cardinality({a \in DOMAIN calls[k].q_atoms : calls[k].q_atoms[a] = l})

\* C20, as claimed: when reorder was not requested, the reorder method main
\* hands to check_reflections is None.
C20_NoReorderMeansNoSolver ==
    \A k \in DOMAIN calls :
        (calls[k].fn = "check_reflections" /\ ~arg_reorder) =>
            calls[k].reorder_method = "none"

\* the rank of atom a of a structure inside its label group: the number of
\* atoms of its label that lie closer to the origin
RankIn(atoms, coord, a) ==
    Cardinality({b \in DOMAIN atoms :
                    atoms[b] = atoms[a] /\ Norm2(coord[b]) < Norm2(coord[a])})

\* C18: when the norms inside every label group are pairwise distinct, the
\* view of reorder_distance maps the p atom with the k-th smallest norm of
\* its group to the q atom with the k-th smallest norm of the same group.
C18_DistancePairsByRank ==
    (/\ reorder_method = "distance" /\ reorder_pc = "returned"
     /\ SameMultiset(p_atoms, q_atoms)
     /\ NoNormTies(p_atoms, p_coord) /\ NoNormTies(q_atoms, q_coord)) =>
        \A a \in DOMAIN p_atoms :
            /\ q_atoms[view_reorder[a]] = p_atoms[a]
            /\ RankIn(q_atoms, q_coord, view_reorder[a]) = RankIn(p_atoms, p_coord, a)

\* two atoms of one label, the farther one first in P and second in Q: the
\* returned view exchanges them
C18_Witness ==
    /\ reorder_method = "distance" /\ reorder_pc = "returned"
    /\ Size(p_atoms) = 2
    /\ p_atoms[0] = p_atoms[1] /\ q_atoms = p_atoms
    /\ Norm2(p_coord[0]) > Norm2(p_coord[1])
    /\ Norm2(q_coord[0]) < Norm2(q_coord[1])
    /\ view_reorder = [k \in Range0(2) |-> 1 - k]

\* the score of the candidate of one swap and one reflection, built from the
\* rows q_rows and put in the order of review
CandidateScore(q_rows, sk, rk, review) ==
    LET swap == AXIS_SWAPS[sk]
        reflection == AXIS_REFLECTIONS[rk]
        Entry(r, cc) == reflection[cc] * q_rows[r][swap[cc]]
        Mean(cc) == Sum([r \in DOMAIN q_rows |-> Entry(r, cc)]) \div Size(q_rows)
        Row(r) == IF review.kind = "none" THEN r ELSE review.val[r]
    IN Fin(Sum([r \in DOMAIN q_rows |-> Sum([cc \in Range0(3) |->
           LET diff == cr_p_coord[r][cc] - (Entry(Row(r), cc) - Mean(cc))
           IN diff * diff])]))

C22_KabschSeesReorderedRows ==
    (/\ arg_output /\ arg_reorder
     /\ main_pc = "in_call"
     /\ Len(calls) > 0
     /\ calls[Len(calls)].fn = "kabsch") =>
        LET q_cent == centroid(q_all)
        IN calls[Len(calls)].p_coord = SubtractRow(q_all, q_cent)

====
